---- MODULE Spec2Model ----
(***************************************************************************)
(* Model of pdf_mcp.url_fetcher.URLFetcher: the SSRF guard, the manual     *)
(* redirect loop of fetch, the streamed size limit, the content check, the *)
(* write into the download cache, and the two-tier lookup.                 *)
(*                                                                         *)
(* Byte strings are kept exactly, run-length encoded: a byte string is a   *)
(* sequence of runs [byte, n] in which neighbouring runs differ in byte    *)
(* and every n > 0.  Text (header values, URL paths) is a sequence of      *)
(* one-character strings.                                                  *)
(***************************************************************************)
EXTENDS Integers, Sequences, FiniteSets, TLC

None == "None"

\* ------------------------------------------------------------ state

VARIABLES
    callers,      \* the callers that use the fetcher
    env,          \* what the servers may answer, what the disk may do and
                  \* what history is kept: [chains, rich, tight, track,
                  \* order], and what the name servers answer right
                  \* now: [rebound]
    url_to_path,  \* URLFetcher._url_to_path: URL -> path, NoPath when absent
    files,        \* the cache directory: path -> file, NoFile when absent
    intact,       \* history: the paths whose file is a body fetch wrote whole
    last,         \* history: the last fetch call, when it returned a path
    fs,           \* per caller: the running call's locals and history
    perm,         \* permissions: the process umask, the mode of the cache
                  \* directory, the mode of each file, and (history) the
                  \* files that fetch created
    docs          \* the Document Content Cache: its TTL, the clock, the
                  \* stored metadata and page texts, and the result of the
                  \* last read

vars == <<callers, env, url_to_path, files, intact, last, fs, perm, docs>>

\* ------------------------------------------------------------ constants

\* url_fetcher.py:17
MAX_DOWNLOAD_SIZE == 100 * 1024 * 1024

\* url_fetcher.py:20
MAX_REDIRECTS == 10

\* ------------------------------------------------------------ byte strings

Run(ch, k) == [byte |-> ch, n |-> k]

RECURSIVE BLen(_)
\* len(bytes)
BLen(c) == IF c = <<>> THEN 0 ELSE c[1].n + BLen(Tail(c))

\* a + b on bytes
BConcat(a, b) ==
    IF a = <<>> THEN b
    ELSE IF b = <<>> THEN a
    ELSE IF a[Len(a)].byte = b[1].byte
         THEN SubSeq(a, 1, Len(a) - 1)
              \o <<Run(b[1].byte, a[Len(a)].n + b[1].n)>>
              \o Tail(b)
         ELSE a \o b

RECURSIVE BRepeat(_, _)
\* c * k
BRepeat(c, k) ==
    IF k <= 0 \/ c = <<>> THEN <<>>
    ELSE IF Len(c) = 1 THEN <<Run(c[1].byte, c[1].n * k)>>
    ELSE BConcat(c, BRepeat(c, k - 1))

\* A list of byte strings holds equal ones that follow each other as one
\* entry with their number: [chunk] * k.
Chunks(chunk, k) == [chunk |-> chunk, n |-> k]

\* len(chunks)
NumChunks(chunks) ==
    LET n[i \in 0..Len(chunks)] == IF i = 0 THEN 0 ELSE n[i - 1] + chunks[i].n
    IN  n[Len(chunks)]

\* chunks.append(chunk), k times
Appended(chunks, chunk, k) ==
    IF k <= 0 THEN chunks
    ELSE IF chunks # <<>> /\ chunks[Len(chunks)].chunk = chunk
    THEN [chunks EXCEPT ![Len(chunks)].n = @ + k]
    ELSE Append(chunks, Chunks(chunk, k))

RECURSIVE BJoin(_)
\* b"".join(chunks)
BJoin(chunks) ==
    IF chunks = <<>> THEN <<>>
    ELSE BConcat(BRepeat(chunks[1].chunk, chunks[1].n), BJoin(Tail(chunks)))

RECURSIVE BTake(_, _)
\* c[:k]
BTake(c, k) ==
    IF k <= 0 \/ c = <<>> THEN <<>>
    ELSE IF c[1].n >= k THEN <<Run(c[1].byte, k)>>
    ELSE BConcat(<<c[1]>>, BTake(Tail(c), k - c[1].n))

RECURSIVE BDrop(_, _)
\* c[k:]
BDrop(c, k) ==
    IF k <= 0 \/ c = <<>> THEN c
    ELSE IF c[1].n > k THEN <<Run(c[1].byte, c[1].n - k)>> \o Tail(c)
    ELSE BDrop(Tail(c), k - c[1].n)

\* The bytes of a file that held `old` after a write of `new` at offset 0.
BOverwrite(old, new) == BConcat(new, BDrop(old, BLen(new)))

\* c.startswith(p)
BStartsWith(c, p) == BLen(c) >= BLen(p) /\ BTake(c, BLen(p)) = p

\* b"%PDF"
PDF_MAGIC == <<Run("%", 1), Run("P", 1), Run("D", 1), Run("F", 1)>>

\* ------------------------------------------------------------ text

\* A text is the sequence of its characters; the characters of the model are
\* those of Latin-1, chr(0) to chr(0xff).

UpperAlpha == <<"A","B","C","D","E","F","G","H","I","J","K","L","M",
                "N","O","P","Q","R","S","T","U","V","W","X","Y","Z">>
LowerAlpha == <<"a","b","c","d","e","f","g","h","i","j","k","l","m",
                "n","o","p","q","r","s","t","u","v","w","x","y","z">>
Digits == <<"0","1","2","3","4","5","6","7","8","9">>

\* The characters from chr(0x80) to chr(0xff) that str.lower() changes,
\* chr(0xc0) to chr(0xde) without the multiplication sign, and what it makes
\* of each.
UpperLatin == <<"À","Á","Â","Ã","Ä","Å","Æ","Ç","È","É","Ê","Ë","Ì","Í","Î",
               "Ï","Ð","Ñ","Ò","Ó","Ô","Õ","Ö","Ø","Ù","Ú","Û","Ü","Ý","Þ">>
LowerLatin == <<"à","á","â","ã","ä","å","æ","ç","è","é","ê","ë","ì","í","î",
               "ï","ð","ñ","ò","ó","ô","õ","ö","ø","ù","ú","û","ü","ý","þ">>

\* ch.lower()
LowerChar(ch) ==
    IF \E i \in 1..26 : UpperAlpha[i] = ch
    THEN LowerAlpha[CHOOSE i \in 1..26 : UpperAlpha[i] = ch]
    ELSE IF \E i \in 1..Len(UpperLatin) : UpperLatin[i] = ch
    THEN LowerLatin[CHOOSE i \in 1..Len(UpperLatin) : UpperLatin[i] = ch]
    ELSE ch

\* str.lower()
Lower(s) == [i \in 1..Len(s) |-> LowerChar(s[i])]

\* sub in s
Contains(s, sub) ==
    \E i \in 0..(Len(s) - Len(sub)) : SubSeq(s, i + 1, i + Len(sub)) = sub

\* s.endswith(suf)
EndsWith(s, suf) ==
    Len(s) >= Len(suf) /\ SubSeq(s, Len(s) - Len(suf) + 1, Len(s)) = suf

\* The characters from chr(0x80) to chr(0xff) that are letters or numeric:
\* the two ordinal indicators, the micro sign, the superscripts and the
\* fractions, and the letters from chr(0xc0) on.
AlnumLatin == {"ª","²","³","µ","¹","º","¼","½","¾","À","Á","Â","Ã","Ä","Å","Æ",
               "Ç","È","É","Ê","Ë","Ì","Í","Î","Ï","Ð","Ñ","Ò","Ó","Ô","Õ","Ö",
               "Ø","Ù","Ú","Û","Ü","Ý","Þ","ß","à","á","â","ã","ä","å","æ","ç",
               "è","é","ê","ë","ì","í","î","ï","ð","ñ","ò","ó","ô","õ","ö","ø",
               "ù","ú","û","ü","ý","þ","ÿ"}

\* ch.isalnum()
IsAlnum(ch) ==
    \/ \E i \in 1..26 : ch = UpperAlpha[i] \/ ch = LowerAlpha[i]
    \/ \E i \in 1..10 : ch = Digits[i]
    \/ ch \in AlnumLatin

\* The text of a Content-Length header as line 189 gets it: the HTTP parser
\* under client.stream lets a response through only when the header is one
\* to twenty of the ten digits of ASCII, with Transfer-Encoding: chunked
\* beside it or without; any other makes client.stream raise
\* httpx.RemoteProtocolError at line 176.
IsLengthText(s) ==
    /\ s # <<>>
    /\ Len(s) <= 20
    /\ {s[i] : i \in 1..Len(s)} \subseteq {Digits[d] : d \in 1..10}

DigitVal(ch) == (CHOOSE i \in 1..10 : Digits[i] = ch) - 1

\* The digits of the number int(s) reads from a text of digits: the text
\* without its leading zeros.
IntDigits(s) ==
    LET nz == CHOOSE i \in 1..(Len(s) + 1) :
                  /\ i = Len(s) + 1 \/ DigitVal(s[i]) # 0
                  /\ \A j \in 1..(i - 1) : DigitVal(s[j]) = 0
    IN  SubSeq(s, nz, Len(s))

RECURSIVE DecimalValue(_)
\* the number a string of decimal digits denotes
DecimalValue(s) ==
    IF s = <<>> THEN 0
    ELSE 10 * DecimalValue(SubSeq(s, 1, Len(s) - 1)) + DigitVal(s[Len(s)])

\* int(s) for a text of digits of at most nine digits after the leading
\* zeros
IntOf(s) == DecimalValue(IntDigits(s))

\* int(s) > n for a text of digits and 0 <= n < 10^9: a number of ten
\* digits or more is compared by its length.
IntAbove(s, n) ==
    \/ Len(IntDigits(s)) > 9
    \/ IntOf(s) > n

\* ------------------------------------------------------------ URLs

\* The URLs the callers and the servers (as redirect targets) use.
U_OLD     == "https://example.com/old.pdf"
U_NEW     == "https://cdn.example.com/new.pdf"
U_API     == "https://example.com/download"
U_FTP     == "ftp://example.com/test.pdf"
U_NOHOST  == "https:///secret.pdf"
U_LOCAL   == "https://localhost/secret.pdf"
U_LOOP    == "https://127.0.0.1/secret.pdf"
U_META    == "http://169.254.169.254/latest/meta-data/"
U_CORP    == "https://internal-server.corp/secret.pdf"
U_NXDOM   == "https://unknown-host.invalid/a.pdf"
U_MIXED   == "https://mixed.example.org/a.pdf"
U_MCAST   == "https://224.0.0.1/a.pdf"
U_RSVD    == "https://240.0.0.1/a.pdf"
U_FILE    == "file:///etc/passwd"
U_ZERO    == "https://0.0.0.0/secret.pdf"
U_V6LOOP  == "https://[::1]/a.pdf"
U_BADNAME == "https://a..b/x.pdf"
U_DOC     == "https://example.com/path/document.pdf"
U_QUERY   == "https://example.com/api/download?id=123"
U_FRAG    == "https://example.com/path/my%20doc!@#$.pdf"
U_ODD     == "https://example.com/path/my%20doc(1).pdf"
U_LATIN   == "https://example.com/path/Añ×²½.pdf"

PublicURLs == {U_OLD, U_NEW, U_API}

BlockedURLs == {U_FTP, U_NOHOST, U_LOCAL, U_LOOP, U_META, U_CORP, U_NXDOM,
                U_MIXED, U_MCAST, U_RSVD, U_FILE, U_ZERO, U_V6LOOP, U_BADNAME}

\* URLs that are only looked up in the cache, never fetched.
LookupOnlyURLs == {U_DOC, U_QUERY, U_FRAG, U_ODD, U_LATIN}

URLs == PublicURLs \cup BlockedURLs \cup LookupOnlyURLs

\* The URLs callers ask for; U_NEW is met as a redirect target only.
CallURLs == {U_OLD, U_API} \cup BlockedURLs

\* urllib.parse.urlparse(url): scheme, hostname (None when the netloc is
\* empty) and path of each URL above.
UrlParse(url) ==
    CASE url = U_OLD    -> [scheme |-> "https", hostname |-> "example.com",
                            path |-> <<"/","o","l","d",".","p","d","f">>]
      [] url = U_NEW    -> [scheme |-> "https", hostname |-> "cdn.example.com",
                            path |-> <<"/","n","e","w",".","p","d","f">>]
      [] url = U_API    -> [scheme |-> "https", hostname |-> "example.com",
                            path |-> <<"/","d","o","w","n","l","o","a","d">>]
      [] url = U_FTP    -> [scheme |-> "ftp", hostname |-> "example.com",
                            path |-> <<"/","t","e","s","t",".","p","d","f">>]
      [] url = U_NOHOST -> [scheme |-> "https", hostname |-> None,
                            path |-> <<"/","s","e","c","r","e","t",".","p","d","f">>]
      [] url = U_LOCAL  -> [scheme |-> "https", hostname |-> "localhost",
                            path |-> <<"/","s","e","c","r","e","t",".","p","d","f">>]
      [] url = U_LOOP   -> [scheme |-> "https", hostname |-> "127.0.0.1",
                            path |-> <<"/","s","e","c","r","e","t",".","p","d","f">>]
      [] url = U_META   -> [scheme |-> "http", hostname |-> "169.254.169.254",
                            path |-> <<"/","l","a","t","e","s","t","/",
                                       "m","e","t","a","-","d","a","t","a","/">>]
      [] url = U_CORP   -> [scheme |-> "https", hostname |-> "internal-server.corp",
                            path |-> <<"/","s","e","c","r","e","t",".","p","d","f">>]
      [] url = U_NXDOM  -> [scheme |-> "https", hostname |-> "unknown-host.invalid",
                            path |-> <<"/","a",".","p","d","f">>]
      [] url = U_MIXED  -> [scheme |-> "https", hostname |-> "mixed.example.org",
                            path |-> <<"/","a",".","p","d","f">>]
      [] url = U_MCAST  -> [scheme |-> "https", hostname |-> "224.0.0.1",
                            path |-> <<"/","a",".","p","d","f">>]
      [] url = U_RSVD   -> [scheme |-> "https", hostname |-> "240.0.0.1",
                            path |-> <<"/","a",".","p","d","f">>]
      [] url = U_FILE   -> [scheme |-> "file", hostname |-> None,
                            path |-> <<"/","e","t","c","/","p","a","s","s","w","d">>]
      [] url = U_ZERO   -> [scheme |-> "https", hostname |-> "0.0.0.0",
                            path |-> <<"/","s","e","c","r","e","t",".","p","d","f">>]
      [] url = U_V6LOOP -> [scheme |-> "https", hostname |-> "::1",
                            path |-> <<"/","a",".","p","d","f">>]
      [] url = U_BADNAME -> [scheme |-> "https", hostname |-> "a..b",
                            path |-> <<"/","x",".","p","d","f">>]
      [] url = U_DOC    -> [scheme |-> "https", hostname |-> "example.com",
                            path |-> <<"/","p","a","t","h","/","d","o","c","u",
                                       "m","e","n","t",".","p","d","f">>]
      [] url = U_QUERY  -> [scheme |-> "https", hostname |-> "example.com",
                            path |-> <<"/","a","p","i","/","d","o","w","n","l","o","a","d">>]
      [] url = U_FRAG   -> [scheme |-> "https", hostname |-> "example.com",
                            path |-> <<"/","p","a","t","h","/","m","y","%","2","0",
                                       "d","o","c","!","@">>]
      [] url = U_ODD    -> [scheme |-> "https", hostname |-> "example.com",
                            path |-> <<"/","p","a","t","h","/","m","y","%","2","0",
                                       "d","o","c","(","1",")",".","p","d","f">>]
      [] url = U_LATIN  -> [scheme |-> "https", hostname |-> "example.com",
                            path |-> <<"/","p","a","t","h","/",
                                       "A","ñ","×","²","½",".","p","d","f">>]

\* ------------------------------------------------------------ SSRF guard

\* socket.getaddrinfo(hostname, None): the addresses the resolver returns, or
\* a failure: an unknown name (gaierror, an OSError), a name with an empty
\* label (UnicodeError, a ValueError).  A literal address resolves to itself.
\* The answer is the one the name servers give at the time of the call: the
\* holder of cdn.example.com may have pointed the name elsewhere.
GetAddrInfo(hostname) ==
    CASE hostname = "example.com"          -> [ok |-> TRUE, addrs |-> <<"93.184.216.34">>]
      [] hostname = "cdn.example.com" /\ env.rebound
                                           -> [ok |-> TRUE, addrs |-> <<"169.254.169.254">>]
      [] hostname = "cdn.example.com"      -> [ok |-> TRUE,
                                               addrs |-> <<"151.101.1.6", "151.101.65.6">>]
      [] hostname = "localhost"            -> [ok |-> TRUE, addrs |-> <<"127.0.0.1">>]
      [] hostname = "127.0.0.1"            -> [ok |-> TRUE, addrs |-> <<"127.0.0.1">>]
      [] hostname = "169.254.169.254"      -> [ok |-> TRUE, addrs |-> <<"169.254.169.254">>]
      [] hostname = "internal-server.corp" -> [ok |-> TRUE, addrs |-> <<"10.0.0.1">>]
      [] hostname = "mixed.example.org"    -> [ok |-> TRUE,
                                               addrs |-> <<"93.184.216.34", "192.168.1.1">>]
      [] hostname = "224.0.0.1"            -> [ok |-> TRUE, addrs |-> <<"224.0.0.1">>]
      [] hostname = "240.0.0.1"            -> [ok |-> TRUE, addrs |-> <<"240.0.0.1">>]
      [] hostname = "0.0.0.0"              -> [ok |-> TRUE, addrs |-> <<"0.0.0.0">>]
      [] hostname = "::1"                  -> [ok |-> TRUE, addrs |-> <<"::1">>]
      [] hostname = "unknown-host.invalid" -> [ok |-> FALSE, addrs |-> <<>>]
      [] hostname = "a..b"                 -> [ok |-> FALSE, addrs |-> <<>>]
      [] OTHER                             -> [ok |-> FALSE, addrs |-> <<>>]

\* ipaddress.ip_address(ip): the properties _is_private_ip reads.
IpProps(ip) ==
    CASE ip = "127.0.0.1"       -> {"is_private", "is_loopback"}
      [] ip = "10.0.0.1"        -> {"is_private"}
      [] ip = "192.168.1.1"     -> {"is_private"}
      [] ip = "169.254.169.254" -> {"is_private", "is_link_local"}
      [] ip = "224.0.0.1"       -> {"is_multicast"}
      [] ip = "240.0.0.1"       -> {"is_private", "is_reserved"}
      [] ip = "0.0.0.0"         -> {"is_private"}
      [] ip = "::1"             -> {"is_private", "is_loopback", "is_reserved"}
      [] OTHER                  -> {}

\* Faulty variant of IsPrivateIp: only the first resolved address is looked at.
IsPrivateIpFirstOnly(hostname) ==
    LET r == GetAddrInfo(hostname) IN
    IF ~r.ok THEN TRUE
    ELSE IpProps(r.addrs[1]) \cap {"is_private", "is_loopback", "is_link_local",
                                   "is_reserved", "is_multicast"} # {}

\* Faulty variant of IsPrivateIp: a hostname that does not resolve is let
\* through.
IsPrivateIpFailOpen(hostname) ==
    LET r == GetAddrInfo(hostname) IN
    IF ~r.ok THEN FALSE
    ELSE \E i \in 1..Len(r.addrs) :
            IpProps(r.addrs[i]) \cap {"is_private", "is_loopback", "is_link_local",
                                      "is_reserved", "is_multicast"} # {}

\* URLFetcher._is_private_ip: TRUE when resolution fails or any address is
\* private, loopback, link-local, reserved or multicast.
IsPrivateIp(hostname) ==
    LET r == GetAddrInfo(hostname) IN
    IF ~r.ok THEN TRUE
    ELSE \E i \in 1..Len(r.addrs) :
            IpProps(r.addrs[i]) \cap {"is_private", "is_loopback", "is_link_local",
                                      "is_reserved", "is_multicast"} # {}

\* The outcome of a run of _validate_url: the verdict and the hostnames it
\* had resolved.
Verdict(v, hosts) == [verdict |-> v, lookups |-> hosts]

\* Faulty variant of ValidateUrlSteps: the hostname is resolved before it is
\* compared with the literal names of the local host.
ValidateUrlStepsResolveFirst(url) ==
    LET parsed == UrlParse(url) IN
    IF parsed.scheme \notin {"http", "https"} THEN Verdict("scheme", <<>>)
    ELSE IF parsed.hostname = None THEN Verdict("no-host", <<>>)
    ELSE IF IsPrivateIp(parsed.hostname)
         THEN Verdict("private", <<parsed.hostname>>)
    ELSE IF parsed.hostname \in {"localhost", "127.0.0.1", "::1", "0.0.0.0"}
         THEN Verdict("localhost", <<parsed.hostname>>)
    ELSE Verdict("ok", <<parsed.hostname>>)

\* URLFetcher._validate_url, step by step: "ok" or the reason of the
\* ValueError it raises, with the hostnames passed to getaddrinfo on the way.
ValidateUrlSteps(url) ==
    LET parsed == UrlParse(url) IN
    IF parsed.scheme \notin {"http", "https"} THEN Verdict("scheme", <<>>)
    ELSE IF parsed.hostname = None THEN Verdict("no-host", <<>>)
    ELSE IF parsed.hostname \in {"localhost", "127.0.0.1", "::1", "0.0.0.0"}
         THEN Verdict("localhost", <<>>)
    ELSE IF IsPrivateIp(parsed.hostname)
         THEN Verdict("private", <<parsed.hostname>>)
    ELSE Verdict("ok", <<parsed.hostname>>)

\* URLFetcher._validate_url: "ok", or the reason of the ValueError it raises.
ValidateUrl(url) == ValidateUrlSteps(url).verdict

\* The answer of the resolver for the host of `url`, as pairs of the hostname
\* and an address; empty when the URL has no host or the name does not
\* resolve.
Answer(url) ==
    LET host == UrlParse(url).hostname
        r    == GetAddrInfo(host)
    IN  IF host = None \/ ~r.ok THEN {}
        ELSE {<<host, r.addrs[i]>> : i \in 1..Len(r.addrs)}

\* The addresses getaddrinfo handed to _is_private_ip in a run of
\* _validate_url(url): none when the run ended before the lookup.
Inspected(url) ==
    IF ValidateUrlSteps(url).lookups = <<>> THEN {} ELSE Answer(url)

\* The addresses the transport gets when client.stream resolves the host of
\* `url` itself to open the connection; it connects to one of them.
ConnectAddrs(url) == Answer(url)

\* ------------------------------------------------------------ cache names

\* hashlib.sha256(url.encode()).hexdigest(): the 64 hexadecimal digits of the
\* SHA-256 digest of each URL above, in UTF-8.
Sha256Hex(url) ==
    CASE url = U_OLD -> <<"7","3","f","6","0","2","7","d","d","c","9","2","e","9","1","8",
          "9","8","5","e","6","2","e","d","a","c","8","5","8","3","e","0",
          "5","6","f","8","8","a","b","0","6","3","6","f","b","6","e","3",
          "b","7","a","b","7","b","3","0","6","3","0","9","e","9","5","3">>
      [] url = U_NEW -> <<"b","d","c","9","4","f","d","1","4","6","4","1","5","d","4","2",
          "c","c","7","8","6","e","6","e","0","f","f","d","6","8","e","f",
          "1","0","b","2","e","f","2","6","6","e","d","f","f","b","7","f",
          "b","c","4","1","4","d","1","f","5","2","8","6","e","5","a","8">>
      [] url = U_API -> <<"7","a","3","2","d","4","6","8","4","f","0","f","5","a","6","e",
          "d","1","2","2","6","6","9","3","9","4","2","f","a","7","5","c",
          "8","8","2","6","d","6","9","1","5","a","e","a","4","5","f","1",
          "9","6","5","9","7","5","3","2","0","d","8","3","d","2","6","6">>
      [] url = U_FTP -> <<"4","c","8","6","8","f","5","8","2","3","f","3","6","7","1","3",
          "1","0","a","0","7","e","3","b","3","f","7","7","e","c","b","8",
          "5","5","4","5","e","b","f","1","5","f","e","4","d","7","1","a",
          "3","7","b","a","9","6","6","7","7","7","2","5","0","8","4","4">>
      [] url = U_NOHOST -> <<"c","0","c","d","d","9","f","e","2","f","6","0","0","f","8","8",
          "f","d","d","9","b","0","b","9","6","2","2","4","1","4","3","3",
          "e","8","5","c","2","0","7","b","5","2","e","a","c","9","8","9",
          "d","2","3","b","8","0","2","0","c","4","b","0","c","2","e","f">>
      [] url = U_LOCAL -> <<"c","9","6","6","a","7","1","f","3","a","d","5","7","6","a","c",
          "0","f","6","a","8","2","b","5","a","7","f","d","1","c","c","7",
          "b","0","7","f","f","b","0","e","1","a","4","f","1","6","a","5",
          "f","2","6","6","f","5","7","c","4","d","2","d","b","6","c","5">>
      [] url = U_LOOP -> <<"3","8","a","7","3","2","9","1","7","c","d","c","c","6","d","f",
          "0","d","2","8","6","b","6","6","d","1","1","c","6","e","1","3",
          "0","a","2","e","2","7","b","2","5","3","9","2","1","6","6","d",
          "4","0","1","2","1","0","d","6","b","b","0","4","f","c","c","8">>
      [] url = U_META -> <<"1","9","5","f","e","4","b","8","c","8","c","0","b","1","8","2",
          "a","f","d","0","4","9","5","e","a","7","3","5","d","6","5","b",
          "5","a","b","b","d","8","c","a","c","0","d","f","6","b","2","e",
          "b","2","1","2","3","f","d","6","2","0","3","1","2","8","7","e">>
      [] url = U_CORP -> <<"d","7","d","f","b","b","c","4","e","1","d","d","2","5","7","f",
          "5","b","7","3","d","e","b","b","8","a","6","5","4","7","a","f",
          "1","d","2","8","6","a","b","a","4","e","e","9","a","3","7","2",
          "9","6","8","b","8","3","5","e","6","7","1","e","d","c","0","f">>
      [] url = U_NXDOM -> <<"7","4","a","1","0","d","1","a","1","e","5","9","3","7","d","e",
          "a","8","4","c","5","9","d","d","9","8","1","2","7","f","b","a",
          "3","c","f","4","b","3","c","4","f","4","d","8","1","e","f","b",
          "f","e","7","4","7","c","a","d","9","3","4","a","9","1","8","8">>
      [] url = U_MIXED -> <<"f","1","2","0","2","3","3","5","4","2","4","c","7","7","f","5",
          "c","9","a","a","2","3","f","8","0","1","7","9","4","f","c","7",
          "c","9","9","9","3","b","8","0","1","f","5","f","2","d","8","1",
          "7","e","c","b","3","6","f","f","0","e","1","e","4","d","e","4">>
      [] url = U_MCAST -> <<"c","d","a","c","e","9","3","9","b","c","d","1","4","9","2","4",
          "b","a","4","4","f","2","4","9","7","9","1","c","c","6","6","2",
          "9","b","d","d","f","6","5","5","6","5","8","9","5","0","b","9",
          "f","1","4","2","e","d","6","3","7","5","0","4","3","4","4","f">>
      [] url = U_RSVD -> <<"b","f","f","7","0","0","c","6","e","b","d","5","a","2","8","4",
          "4","3","4","f","5","0","d","7","0","2","6","9","6","f","5","2",
          "6","b","2","8","3","9","2","8","a","8","9","8","2","8","6","6",
          "c","a","b","0","4","8","0","4","a","a","a","d","1","7","6","1">>
      [] url = U_FILE -> <<"0","e","7","a","5","a","5","c","1","0","c","b","e","8","8","a",
          "c","2","d","4","e","8","f","3","2","9","8","1","f","0","b","9",
          "2","7","1","9","4","4","b","9","d","b","7","4","b","c","7","c",
          "d","5","0","2","b","9","f","7","2","c","0","4","f","8","8","0">>
      [] url = U_ZERO -> <<"a","8","e","6","1","7","d","0","3","e","0","3","d","d","f","6",
          "0","8","5","7","9","a","d","b","e","5","d","d","9","6","3","0",
          "1","5","2","3","d","7","b","c","c","4","3","9","c","7","d","2",
          "f","e","6","f","0","3","1","5","5","4","d","f","d","a","0","8">>
      [] url = U_V6LOOP -> <<"2","1","c","8","b","a","a","c","f","0","6","f","7","8","1","9",
          "2","b","2","0","e","2","1","3","b","8","3","c","b","a","5","a",
          "e","6","1","e","1","2","4","2","b","3","9","a","e","e","0","2",
          "a","b","a","4","2","0","7","d","e","c","0","9","b","0","c","7">>
      [] url = U_BADNAME -> <<"4","0","6","8","9","3","a","1","d","2","9","2","7","3","5","e",
          "d","b","b","a","4","3","0","7","7","3","f","f","b","7","7","c",
          "6","9","1","c","7","8","a","e","f","6","3","2","c","c","7","6",
          "a","b","c","2","a","c","2","9","5","b","7","c","6","e","5","6">>
      [] url = U_DOC -> <<"9","f","6","f","7","3","a","f","0","4","b","5","3","0","6","d",
          "2","4","b","7","a","9","2","9","9","f","b","5","8","a","3","c",
          "2","1","4","2","4","5","b","a","1","c","d","6","f","3","c","e",
          "7","e","e","6","b","5","1","0","1","3","9","c","1","7","9","5">>
      [] url = U_QUERY -> <<"2","7","2","8","2","d","1","1","7","d","4","a","8","4","c","0",
          "5","2","e","9","8","2","9","e","2","0","0","8","a","9","6","c",
          "3","e","e","c","f","6","6","a","5","9","1","1","d","1","a","5",
          "b","e","4","d","5","3","1","e","a","3","b","7","9","a","f","7">>
      [] url = U_FRAG -> <<"8","3","b","5","c","1","9","e","d","e","5","a","c","d","5","4",
          "2","6","4","7","5","c","8","d","7","7","9","a","f","b","e","d",
          "e","7","1","4","0","2","1","e","f","8","3","3","4","9","b","9",
          "8","1","3","6","c","c","4","6","5","2","0","b","2","5","6","8">>
      [] url = U_ODD -> <<"7","b","c","b","4","4","a","9","a","9","3","3","b","3","4","6",
          "d","9","6","3","3","a","2","7","e","4","2","4","a","c","c","c",
          "6","f","b","4","1","0","9","b","d","4","2","d","c","3","6","6",
          "4","2","f","e","6","5","2","d","9","7","d","6","b","9","0","3">>
      [] url = U_LATIN -> <<"b","4","1","b","6","7","e","2","d","b","9","9","7","6","e","a",
          "9","0","f","1","3","1","7","8","f","b","c","a","b","d","a","1",
          "5","3","b","0","c","e","a","e","8","f","5","2","5","8","1","e",
          "8","e","c","3","6","9","f","3","d","3","4","6","b","1","5","e">>

\* Faulty variant of UrlHash: the first eight digits of the digest.
\* Faulty variant of UrlHash: the first eight digits only.
UrlHashShort(url) == SubSeq(Sha256Hex(url), 1, 8)

\* hashlib.sha256(url.encode()).hexdigest()[:16]
UrlHash(url) == SubSeq(Sha256Hex(url), 1, 16)

RECURSIVE LastSlash(_)
\* the index of the last "/" of a path, 0 when it has none
LastSlash(p) ==
    IF p = <<>> THEN 0
    ELSE IF p[Len(p)] = "/" THEN Len(p)
    ELSE LastSlash(SubSeq(p, 1, Len(p) - 1))

\* os.path.basename(path)
Basename(p) == SubSeq(p, LastSlash(p) + 1, Len(p))

\* c.isalnum() or c in "._-"
IsSafeChar(ch) == IsAlnum(ch) \/ ch \in {".", "_", "-"}

\* Faulty variant of Sanitize: the basename is taken as it is.
SanitizeKeepsAll(s) == s

\* "".join(c for c in original_name if c.isalnum() or c in "._-")
Sanitize(s) == SelectSeq(s, IsSafeChar)

\* Faulty variant of GetCacheFilename: the name kept from the URL is cut at
\* its last dot, the extension is not put back.
GetCacheFilenameNoSuffix(url) ==
    LET path == UrlParse(url).path IN
    IF EndsWith(path, <<".", "p", "d", "f">>)
    THEN UrlHash(url) \o <<"_">> \o SubSeq(Sanitize(Basename(path)), 1,
                                           Len(Sanitize(Basename(path))) - 4)
    ELSE UrlHash(url) \o <<".", "p", "d", "f">>

\* URLFetcher._get_cache_filename
GetCacheFilename(url) ==
    LET path == UrlParse(url).path IN
    IF EndsWith(path, <<".", "p", "d", "f">>)
    THEN UrlHash(url) \o <<"_">> \o Sanitize(Basename(path))
    ELSE UrlHash(url) \o <<".", "p", "d", "f">>

\* self._get_cache_filename(url) of every URL of the model, computed once.
CacheFilenames == [u \in URLs |-> GetCacheFilename(u)]

\* self.cache_dir / self._get_cache_filename(url)
CachePath(url) == [dir |-> "cache_dir", file |-> CacheFilenames[url]]

Paths == {CachePath(u) : u \in URLs}

\* ------------------------------------------------------------ environment

\* Longest redirect chain a server serves under plain servers (SpecRedirects
\* lets the chain run past MAX_REDIRECTS).
MaxChain == 2

\* The callers: one at a time under Spec.
Sequential == {1}

\* response.iter_bytes(chunk_size=8192): the body comes in chunks of this many
\* bytes, the last one of what is left.
CHUNK_SIZE == 8192

\* The response bodies a server may send, each as its bytes: a PDF of one
\* chunk, a page of HTML, a PDF of exactly the maximum (12800 chunks), one
\* of a byte more, and a body of a byte more that is no PDF.
BODY_PDF  == PDF_MAGIC
BODY_HTML == <<Run("<", 1), Run("h", 1)>>
BODY_MAX  == PDF_MAGIC \o <<Run("x", MAX_DOWNLOAD_SIZE - 4)>>
BODY_OVER == PDF_MAGIC \o <<Run("x", MAX_DOWNLOAD_SIZE - 3)>>
BODY_JUNK == <<Run("<", 1), Run("h", 1), Run("x", MAX_DOWNLOAD_SIZE - 1)>>

\* The bodies of one chunk.
SmallBodies == {BODY_PDF, BODY_HTML}

Bodies == SmallBodies \cup {BODY_MAX, BODY_OVER, BODY_JUNK}

\* A header of a response: absent, or its text.
NoHdr == [has |-> FALSE, text |-> <<>>]

Hdr(text) == [has |-> TRUE, text |-> text]

CL_MAX  == Hdr(<<"1","0","4","8","5","7","6","0","0">>)
CL_OVER == Hdr(<<"1","0","4","8","5","7","6","0","1">>)
\* with zeros in front: 104857601
CL_PADDED == Hdr(<<"0","0","1","0","4","8","5","7","6","0","1">>)
\* twenty digits, the longest text the HTTP parser lets through
CL_WIDE == Hdr([i \in 1..20 |-> "9"])

\* Content-Length headers a server may send and the HTTP parser lets
\* through; beside Transfer-Encoding: chunked the header need not be the
\* length of the body.
ContentLengths == {NoHdr, CL_MAX, CL_OVER, CL_PADDED, CL_WIDE}

CT_PDF   == Hdr(<<"a","p","p","l","i","c","a","t","i","o","n","/","p","d","f">>)
CT_UPPER == Hdr(<<"A","p","p","l","i","c","a","t","i","o","n","/","P","D","F">>)
CT_HTML  == Hdr(<<"t","e","x","t","/","h","t","m","l">>)

\* Content-Type headers a server may send.
ContentTypes == {NoHdr, CT_PDF, CT_UPPER, CT_HTML}

\* HTTP status codes of a response that is no redirect: response.is_redirect
\* holds of every status from 300 to 399.
Statuses == {200, 206, 404}

\* Where a redirect response may point: one public URL, which is another URL
\* for U_OLD and the same URL again for U_NEW, and three URLs the guard rejects.
RedirectTargets == {U_NEW, U_META, U_FTP, U_NXDOM}

\* A mode is the set of its permission bits.
Mode777 == {"ur", "uw", "ux", "gr", "gw", "gx", "or", "ow", "ox"}

Mode700 == {"ur", "uw", "ux"}

Mode666 == {"ur", "uw", "gr", "gw", "or", "ow"}

Mode600 == {"ur", "uw"}

NoMode == {}

\* The umasks a process runs under: 0o000, 0o022, 0o027, 0o077.
Umask022 == {"gw", "ow"}

Umasks == {{}, Umask022, {"gw", "or", "ow", "ox"},
           {"gr", "gw", "gx", "or", "ow", "ox"}}

\* The mode a file or directory gets when created with `mode` asked for.
Masked(mode, umask) == mode \ umask

\* self.cache_dir.mkdir(parents=True, exist_ok=True);
\* os.chmod(self.cache_dir, 0o700)
DirModeAfterInit(umask) == Mode700

\* Faulty variant of OpenMode: the file is created as open(path, "wb") would.
OpenModeDefault(old, exists, umask) ==
    IF exists THEN old ELSE Masked(Mode666, umask)

\* The mode of the file after os.open(path, O_WRONLY | O_CREAT | O_TRUNC,
\* 0o600): the mode argument counts only when the call creates the file.
OpenMode(old, exists, umask) ==
    IF exists THEN old ELSE Masked(Mode600, umask)

\* The mode of a file after something outside the fetcher wrote it, as
\* path.write_bytes does.
WrittenMode(old, exists, umask) ==
    IF exists THEN old ELSE Masked(Mode666, umask)

NoPath == [dir |-> "", file |-> <<>>]

NoFile == [exists |-> FALSE, data |-> <<>>]

File(data) == [exists |-> TRUE, data |-> data]

NoErr == [kind |-> "", detail |-> ""]

Err(kind, detail) == [kind |-> kind, detail |-> detail]

NoResp == [status |-> 0, content_length |-> NoHdr, content_type |-> NoHdr]

NoLast == [url |-> None, path |-> NoPath, nbody |-> 0, nredir |-> 0,
           cached0 |-> FALSE, proc |-> 0]

EmptyIndex == [u \in URLs |-> NoPath]

EmptyFiles == [p \in Paths |-> NoFile]

NoStats == [cached_files |-> 0, total_size_bytes |-> 0, total_size_mb |-> 0]

IdleRec ==
    [pc |-> "idle", op |-> None, url |-> None, force_refresh |-> FALSE,
     current_url |-> None, iter |-> 0, chain |-> 0, resp |-> NoResp,
     body |-> <<>>, stream |-> <<>>, chunks |-> <<>>, total_size |-> 0, content |-> <<>>,
     result |-> NoPath, count |-> 0, err |-> NoErr,
     validated |-> {}, requested |-> {}, rejected |-> None,
     inspected |-> {}, connect |-> {},
     path |-> NoPath, unlinked |-> FALSE, todo |-> {},
     alone |-> TRUE, prior |-> {},
     nredir |-> 0, nbody |-> 0, nread |-> 0, ndns |-> 0, nguard |-> 0,
     cached0 |-> FALSE,
     files0 |-> EmptyFiles, index0 |-> EmptyIndex, stats |-> NoStats]

Idle(c) == fs[c].pc = "idle"

\* The calls once caller c has begun the call `f`.  With it goes, as history
\* and when the environment keeps the order of the calls: whether a call has
\* run alone so far, no call of another caller running when it began or
\* beginning since, and which callers' calls had ended and were not yet taken
\* when it began.
Begun(c, f) ==
    IF ~env.order THEN [fs EXCEPT ![c] = f]
    ELSE [d \in callers |->
             IF d = c
             THEN [f EXCEPT
                     !.alone = \A e \in callers \ {c} : fs[e].pc \in {"idle", "done"},
                     !.prior = {e \in callers \ {c} : fs[e].pc = "done"}]
             ELSE IF fs[d].pc \in {"idle", "done"} THEN fs[d]
             ELSE [fs[d] EXCEPT !.alone = FALSE]]

AllIdle == \A c \in callers : Idle(c)

\* path.exists()
Exists(fls, path) == path \in DOMAIN fls /\ fls[path].exists

\* URLFetcher.get_local_path when nothing else runs between its lines: the
\* path returned (NoPath for None) and the index afterwards.
GetLocalPath(idx, fls, url) ==
    IF idx[url] # NoPath /\ Exists(fls, idx[url])
    THEN [path |-> idx[url], index |-> idx]
    ELSE IF Exists(fls, CachePath(url))
         THEN [path |-> CachePath(url),
               index |-> [idx EXCEPT ![url] = CachePath(url)]]
         ELSE [path |-> NoPath, index |-> idx]

\* ------------------------------------------------------------ document
\* content cache: state

\* The documents whose content is cached, by identity.
Identities == {"/docs/a.pdf", "/docs/b.pdf"}

\* The page indices callers ask for.
PageIndices == {0, 1, 2}

\* The page indices callers save text for: not the last one asked for.
SavedIndices == {0, 1}

\* The documents callers save page text for; of the other only metadata is
\* saved.
PagedIdentities == {"/docs/a.pdf"}

\* The page texts a caller saves.
Texts == {"Page 1 content", "Page 1 content, revised"}

\* The page counts a caller saves with the metadata.
PageCounts == {5}

\* The clock runs from 0 to MaxTime, in hours.
MaxTime == 1

\* The TTL the cache is configured with, in hours.
TTL_HOURS == 1

NoMeta == [has |-> FALSE, page_count |-> 0, created |-> 0]

NoText == [has |-> FALSE, text |-> "", created |-> 0]

NoDocStats == [total_files |-> 0, total_pages |-> 0]

NoOut == [op |-> "", identity |-> "", page |-> 0, indices |-> {},
          meta |-> NoMeta, text |-> NoText, texts |-> <<>>,
          stats |-> NoDocStats, removed |-> NoDocStats]

\* An empty cache with the TTL `ttl`, at time 0.
InitDocs(ttl) ==
    [ttl |-> ttl, now |-> 0,
     meta |-> [id \in Identities |-> NoMeta],
     pages |-> [id \in Identities |-> [i \in PageIndices |-> NoText]],
     out |-> NoOut]

\* The permissions after URLFetcher.__init__ under `umask`: an empty
\* directory of mode 0o700.
InitPerm(umask) ==
    [umask |-> umask, dir |-> DirModeAfterInit(umask),
     file |-> [p \in Paths |-> NoMode], made |-> {}]

\* The permissions after the removal of the files `gone`.
Unlinked(gone) ==
    [perm EXCEPT !.file = [p \in Paths |-> IF p \in gone THEN NoMode ELSE @[p]],
                 !.made = @ \ gone]

\* The environment of a specification: the lengths of the redirect chains the
\* servers answer with, whether they are rich servers, and whether the last
\* fetch is kept as history; the bodies are of one chunk, the name servers
\* give their first answer, the disk is not tight, the order of the calls is
\* not kept and the process is the first one to run on the cache directory.
Env(chains, rich, track) ==
    [chains |-> chains, rich |-> rich, track |-> track, big |-> FALSE,
     rebound |-> FALSE, tight |-> FALSE, order |-> FALSE, proc |-> 0]

InitWith(cs, e) ==
    /\ callers = cs
    /\ env = e
    /\ url_to_path = EmptyIndex
    /\ files = EmptyFiles
    /\ intact = {}
    /\ last = NoLast
    /\ fs = [c \in cs |-> IdleRec]
    /\ perm = InitPerm(Umask022)
    /\ docs = InitDocs(TTL_HOURS)

\* Rich servers: every status and header, after no redirect, after one, or
\* with redirects up to the cap.
Init ==
    InitWith(Sequential, Env({0, 1, MAX_REDIRECTS}, TRUE, FALSE))

\* ------------------------------------------------------------ servers

EnvStatuses == IF env.rich THEN Statuses ELSE {200}

EnvContentLengths == IF env.rich THEN ContentLengths ELSE {NoHdr}

EnvContentTypes == IF env.rich THEN ContentTypes ELSE {CT_PDF, CT_HTML}

EnvBodies == IF env.big THEN Bodies ELSE SmallBodies

\* ------------------------------------------------------------ fetch

\* The call ends: it returns `path`.
Returned(f, path) == [f EXCEPT !.pc = "done", !.result = path]

\* The call ends: it raises `e`.
Raised(f, e) == [f EXCEPT !.pc = "done", !.err = e]

\* The redirect chains the servers may answer a call with.
Chains(f) == IF f.op = "fetch" THEN env.chains ELSE {0}

\* get_local_path found no file and returns None: a lookup is over, a fetch
\* goes on to the download loop, where the servers answer with `n` redirects.
Missed(f, n) ==
    IF f.op = "fetch"
    THEN [f EXCEPT !.pc = "request", !.current_url = f.url, !.chain = n]
    ELSE Returned(f, NoPath)

\* Faulty variant of FetchBegin: the cache is looked up before the guard runs.
FetchBeginCacheFirst(c, url, force) ==
    LET v    == ValidateUrl(url)
        look == GetLocalPath(url_to_path, files, url)
        f    == [IdleRec EXCEPT !.op = "fetch", !.url = url,
                                !.force_refresh = force,
                                !.ndns = Len(ValidateUrlSteps(url).lookups),
                                !.nguard = 1,
                                !.inspected = Inspected(url),
                                !.cached0 = (look.path # NoPath),
                                !.files0 = files, !.index0 = url_to_path]
    IN  /\ Idle(c)
        /\ url_to_path' = IF ~force THEN look.index ELSE url_to_path
        /\ IF ~force /\ look.path # NoPath
           THEN fs' = Begun(c, Returned(f, look.path))
           ELSE IF v # "ok"
           THEN fs' = Begun(c, Raised([f EXCEPT !.rejected = url],
                                      Err("BlockedURL", v)))
           ELSE \E n \in env.chains :
                   fs' = Begun(c, [f EXCEPT !.pc = "request", !.current_url = url,
                                            !.chain = n, !.validated = {url}])
        /\ UNCHANGED <<callers, env, docs, perm, files, intact, last>>

\* fetch, up to its first look at the cache: the guard on the URL; with
\* force_refresh the download loop is next, else get_local_path.  `cached0`
\* keeps, as history, whether the cache held the URL when the call began.
FetchBegin(c, url, force) ==
    LET v == ValidateUrl(url)
        f == [IdleRec EXCEPT !.op = "fetch", !.url = url,
                             !.force_refresh = force,
                             !.ndns = Len(ValidateUrlSteps(url).lookups),
                             !.nguard = 1,
                             !.inspected = Inspected(url),
                             !.cached0 = (GetLocalPath(url_to_path, files, url).path # NoPath),
                             !.files0 = files, !.index0 = url_to_path]
    IN  /\ Idle(c)
        /\ IF v # "ok"
           THEN fs' = Begun(c, Raised([f EXCEPT !.rejected = url],
                                      Err("BlockedURL", v)))
           ELSE IF ~force
           THEN fs' = Begun(c, [f EXCEPT !.pc = "index", !.validated = {url}])
           ELSE \E n \in env.chains :
                   fs' = Begun(c, [f EXCEPT !.pc = "request", !.current_url = url,
                                            !.chain = n, !.validated = {url}])
        /\ UNCHANGED <<callers, env, docs, perm, url_to_path, files, intact, last>>

\* client.stream("GET", current_url) of one loop iteration, up to the wait
\* for the response: the transport resolves the host, connects and the
\* request goes out.
Requested(f) ==
    [f EXCEPT !.pc = "response", !.iter = @ + 1,
              !.requested = @ \cup {f.current_url},
              !.connect = @ \cup ConnectAddrs(f.current_url)]

HopRequest(c) ==
    LET f == fs[c] IN
    /\ f.pc = "request"
    /\ fs' = [fs EXCEPT ![c] = Requested(f)]
    /\ UNCHANGED <<callers, env, docs, perm, url_to_path, files, intact, last>>

\* Faulty variant of HopTransportError: the error is noted and the request is
\* made again.
HopTransportErrorRetried(c) ==
    LET f == fs[c]
        g == IF f.pc = "request" THEN Requested(f) ELSE f
    IN  /\ f.pc \in {"request", "response"}
        /\ fs' = [fs EXCEPT ![c] =
                     [g EXCEPT !.pc = "request",
                               !.err = Err("TransportError", "connect")]]
        /\ UNCHANGED <<callers, env, docs, perm, url_to_path, files, intact, last>>

\* The request fails in the transport, while it connects or while it waits
\* for the response: a connection error, a timeout, or a response the HTTP
\* parser refuses (a Content-Length that is not one to twenty digits is one).
HopTransportError(c) ==
    LET f == fs[c]
        g == IF f.pc = "request" THEN Requested(f) ELSE f
    IN  /\ f.pc \in {"request", "response"}
        /\ fs' = [fs EXCEPT ![c] = Raised(g, Err("TransportError", "connect"))]
        /\ UNCHANGED <<callers, env, docs, perm, url_to_path, files, intact, last>>

\* Faulty variant of ValidateRedirect: redirect targets are followed unchecked.
ValidateRedirectSkipped(t) == "ok"

\* The guard on a redirect target.
ValidateRedirect(t) == ValidateUrl(t)

\* Faulty variant of AfterRedirect: the target is followed without a call of
\* the guard, as a client that follows redirects itself does.
AfterRedirectUnguarded(f, t) ==
    LET g == [f EXCEPT !.nredir = @ + 1]
    IN  IF t = None
        THEN Raised(g, Err("ValueError", "Redirect with no target URL"))
        ELSE LET h == [g EXCEPT !.pc = "request", !.current_url = t]
             IN  IF h.iter >= MAX_REDIRECTS
                 THEN Raised(h, Err("TooManyRedirects", "max"))
                 ELSE h

\* Faulty variant of AfterRedirect: the body of the redirect response is
\* read like a chunk of the download.
AfterRedirectReadsBody(f, t) ==
    LET b == <<Run("<", 1), Run("h", 1)>>
        g == [f EXCEPT !.nredir = @ + 1, !.nread = @ + 1,
                                  !.total_size = @ + BLen(b),
                                  !.chunks = Appended(@, b, 1)]
        v == ValidateRedirect(t)
        k == g.ndns + Len(ValidateUrlSteps(t).lookups)
    IN  IF t = None
        THEN Raised(g, Err("ValueError", "Redirect with no target URL"))
        ELSE IF v # "ok"
        THEN Raised([g EXCEPT !.rejected = t, !.ndns = k, !.nguard = @ + 1,
                              !.inspected = @ \cup Inspected(t)],
                    Err("BlockedURL", v))
        ELSE LET h == [g EXCEPT !.pc = "request", !.current_url = t,
                                !.validated = @ \cup {t},
                                !.ndns = k, !.nguard = @ + 1,
                                !.inspected = @ \cup Inspected(t)]
             IN  IF h.iter >= MAX_REDIRECTS
                 THEN Raised(h, Err("TooManyRedirects", "max"))
                 ELSE h

\* The rest of a loop iteration whose response is a redirect to `t` (None:
\* the response has no next request): the guard on the target as the name
\* servers answer by now; the loop's else branch when it was the last one.
AfterRedirect(f, t) ==
    LET g == [f EXCEPT !.nredir = @ + 1]
        v == ValidateRedirect(t)
        k == g.ndns + Len(ValidateUrlSteps(t).lookups)
    IN  IF t = None
        THEN Raised(g, Err("ValueError", "Redirect with no target URL"))
        ELSE IF v # "ok"
        THEN Raised([g EXCEPT !.rejected = t, !.ndns = k, !.nguard = @ + 1,
                              !.inspected = @ \cup Inspected(t)],
                    Err("BlockedURL", v))
        ELSE LET h == [g EXCEPT !.pc = "request", !.current_url = t,
                                !.validated = @ \cup {t},
                                !.ndns = k, !.nguard = @ + 1,
                                !.inspected = @ \cup Inspected(t)]
             IN  IF h.iter >= MAX_REDIRECTS
                 THEN Raised(h, Err("TooManyRedirects", "max"))
                 ELSE h

\* The response arrives with a status from 300 to 399: the servers answer
\* the first `chain` requests of the call with one.  It has a next request
\* when it is a 301, 302, 303, 307 or 308 with a Location header, and none
\* otherwise (a 304, say).
HopRedirect(c) ==
    LET f == fs[c] IN
    /\ f.pc = "response"
    /\ f.iter <= f.chain
    /\ \E t \in RedirectTargets \cup {None} :
          fs' = [fs EXCEPT ![c] = AfterRedirect(f, t)]
    /\ UNCHANGED <<callers, env, docs, perm, url_to_path, files, intact, last>>

\* response.raise_for_status(): whether it raises (httpx raises for every
\* response that is not a success, 2xx)
StatusRaises(status) == ~(200 <= status /\ status <= 299)

\* Faulty variant of CheckContentLength: the header is not looked at.
CheckContentLengthIgnored(cl) == "skip"

\* content_length and int(content_length) > MAX_DOWNLOAD_SIZE:
\* "skip", "over" or "fits"
CheckContentLength(cl) ==
    IF ~(cl.has /\ Len(cl.text) > 0) THEN "skip"
    ELSE IF IntAbove(cl.text, MAX_DOWNLOAD_SIZE) THEN "over"
    ELSE "fits"

\* Faulty variant of AfterResponse: the declared length is checked before
\* the status.
AfterResponseLengthFirst(f, status, cl, body) ==
    LET g == [f EXCEPT
                 !.resp = [status |-> status, content_length |-> cl,
                           content_type |-> NoHdr]]
        k == CheckContentLength(cl)
    IN  IF k = "over"
        THEN Raised(g, Err("TooLarge", "content-length"))
        ELSE IF StatusRaises(status)
        THEN Raised(g, Err("TransportError", "status"))
        ELSE [g EXCEPT !.pc = "stream", !.body = body, !.stream = body,
                     !.nbody = @ + 1]

\* The rest of a loop iteration whose response is no redirect, up to the
\* body loop.
AfterResponse(f, status, cl, body) ==
    LET g == [f EXCEPT
                 !.resp = [status |-> status, content_length |-> cl,
                           content_type |-> NoHdr]]
        k == CheckContentLength(cl)
    IN  IF StatusRaises(status)
        THEN Raised(g, Err("TransportError", "status"))
        ELSE IF k = "over"
        THEN Raised(g, Err("TooLarge", "content-length"))
        ELSE [g EXCEPT !.pc = "stream", !.body = body, !.stream = body,
                     !.nbody = @ + 1]

\* The body of a response as the HTTP parser frames it: with
\* Transfer-Encoding: chunked the chunks sent, whatever Content-Length says;
\* without it the bytes that Content-Length counts, or all up to the end of
\* the connection when the header is absent.
Framed(cl, body, chunked) ==
    IF chunked \/ ~cl.has
    THEN TRUE
    ELSE /\ Len(IntDigits(cl.text)) <= 9
         /\ BLen(body) = IntOf(cl.text)

\* The response arrives and is no redirect: client.stream hands it over
\* (line 176) with a Content-Length header the HTTP parser lets through, or
\* with none.
HopFinal(c) ==
    LET f == fs[c] IN
    /\ f.pc = "response"
    /\ f.iter = f.chain + 1
    /\ \E cl \in {h \in EnvContentLengths : h.has => IsLengthText(h.text)},
          status \in EnvStatuses, body \in EnvBodies, chunked \in BOOLEAN :
          /\ Framed(cl, body, chunked)
          /\ fs' = [fs EXCEPT ![c] = AfterResponse(f, status, cl, body)]
    /\ UNCHANGED <<callers, env, docs, perm, url_to_path, files, intact, last>>

\* Faulty variant of AfterChunk: the total counts the chunks, not their
\* bytes.
AfterChunkCountsChunks(f, chunk) ==
    LET total == f.total_size + 1
        g     == [f EXCEPT !.total_size = total,
                           !.stream = BDrop(@, BLen(chunk)),
                           !.nread = @ + 1]
    IN  IF total > MAX_DOWNLOAD_SIZE
        THEN Raised(g, Err("TooLarge", "stream"))
        ELSE [g EXCEPT !.chunks = Appended(@, chunk, 1)]

\* One turn of the body loop, on the next chunk.
AfterChunk(f, chunk) ==
    LET total == f.total_size + BLen(chunk)
        g     == [f EXCEPT !.total_size = total,
                           !.stream = BDrop(@, BLen(chunk)),
                           !.nread = @ + 1]
    IN  IF total > MAX_DOWNLOAD_SIZE
        THEN Raised(g, Err("TooLarge", "stream"))
        ELSE [g EXCEPT !.chunks = Appended(@, chunk, 1)]

\* One turn of the body loop (lines 199 to 206): the next chunk is the next
\* CHUNK_SIZE bytes of the body, or what is left of it.
StreamChunk(c) ==
    /\ fs[c].pc = "stream"
    /\ fs[c].stream # <<>>
    /\ \E chunk \in {BTake(fs[c].stream, CHUNK_SIZE)} :
          fs' = [fs EXCEPT ![c] = AfterChunk(fs[c], chunk)]
    /\ UNCHANGED <<callers, env, docs, perm, url_to_path, files, intact, last>>

\* The body stream fails in the transport (read error, timeout, the server
\* closes the connection before the body is whole): before the first turn
\* of the body loop or after any turn.
StreamTransportError(c) ==
    LET f == fs[c] IN
    /\ f.pc = "stream"
    /\ fs' = [fs EXCEPT ![c] = Raised(f, Err("TransportError", "read"))]
    /\ UNCHANGED <<callers, env, docs, perm, url_to_path, files, intact, last>>

\* Faulty variant of LooksLikePdf: the header is compared as it came, without
\* lower().
LooksLikePdfCaseSensitive(ct, content) ==
    \/ Contains(IF ct.has THEN ct.text ELSE <<>>, <<"p", "d", "f">>)
    \/ BStartsWith(content, PDF_MAGIC)

\* "pdf" in content_type.lower() or content.startswith(b"%PDF"), with
\* content_type "" when the header is absent
LooksLikePdf(ct, content) ==
    \/ Contains(Lower(IF ct.has THEN ct.text ELSE <<>>), <<"p", "d", "f">>)
    \/ BStartsWith(content, PDF_MAGIC)

\* The body is exhausted: join the chunks and check the content type.
AfterBody(f, ct) ==
    LET content == BJoin(f.chunks)
        g == [f EXCEPT !.content = content, !.resp.content_type = ct]
    IN  IF LooksLikePdf(ct, content)
        THEN [g EXCEPT !.pc = "open"]
        ELSE Raised(g, Err("NotAPDF", "content"))

StreamEnd(c) ==
    LET f == fs[c] IN
    /\ f.pc = "stream"
    /\ f.stream = <<>>
    /\ \E ct \in EnvContentTypes :
          fs' = [fs EXCEPT ![c] = AfterBody(f, ct)]
    /\ UNCHANGED <<callers, env, docs, perm, url_to_path, files, intact, last>>

\* Faulty variant of PersistOpen: the file is opened without O_TRUNC and
\* keeps what it holds.
PersistOpenNoTrunc(c) ==
    LET f    == fs[c]
        path == CachePath(f.url)
    IN  /\ f.pc = "open"
        /\ \/ /\ fs' = [fs EXCEPT ![c] = Raised(f, Err("OSError", "write"))]
              /\ UNCHANGED <<files, intact, perm>>
           \/ /\ files' = [files EXCEPT ![path] = IF @.exists THEN @ ELSE File(<<>>)]
              /\ intact' = intact \ {path}
              /\ perm' = [perm EXCEPT
                    !.file[path] = OpenMode(@, files[path].exists, perm.umask),
                    !.made = IF files[path].exists THEN @ ELSE @ \cup {path}]
              /\ fs' = [fs EXCEPT ![c] = [f EXCEPT !.pc = "write", !.unlinked = FALSE]]
        /\ UNCHANGED <<callers, env, docs, url_to_path, last>>

\* os.open(local_path, O_WRONLY | O_CREAT | O_TRUNC, 0o600): it raises
\* OSError (no inode left, no descriptor left, no permission) and nothing is
\* changed, or the file exists and is empty.
PersistOpen(c) ==
    LET f    == fs[c]
        path == CachePath(f.url)
    IN  /\ f.pc = "open"
        /\ \/ /\ fs' = [fs EXCEPT ![c] = Raised(f, Err("OSError", "write"))]
              /\ UNCHANGED <<files, intact, perm>>
           \/ /\ files' = [files EXCEPT ![path] = File(<<>>)]
              /\ intact' = intact \ {path}
              /\ perm' = [perm EXCEPT
                    !.file[path] = OpenMode(@, files[path].exists, perm.umask),
                    !.made = IF files[path].exists THEN @ ELSE @ \cup {path}]
              /\ fs' = [fs EXCEPT ![c] = [f EXCEPT !.pc = "write", !.unlinked = FALSE]]
        /\ UNCHANGED <<callers, env, docs, url_to_path, last>>

\* What os.write(fd, content) may return: every count from 1 to the length
\* of the content (a file size limit, a full disk), 0 for no content.
WriteCounts(content) ==
    IF content = <<>> THEN {0} ELSE 1..BLen(content)

\* The longest short write a tight disk is taken to make.
MaxShortWrite == 3

\* The counts the disk lets a write of `content` return: all of it, and on a
\* tight disk each shorter count up to MaxShortWrite.
EnvWriteCounts(content) ==
    {BLen(content)}
        \cup (IF env.tight
              THEN {k \in 1..MaxShortWrite : k < BLen(content)}
              ELSE {})

\* The cache directory after a write of the first k bytes of the content by
\* caller c: from offset 0 on, over what the file holds by then; into a file
\* no path leads to when the file was unlinked after os.open.
Written(c, k) ==
    LET f    == fs[c]
        path == CachePath(f.url)
        data == BOverwrite(files[path].data, BTake(f.content, k))
    IN  IF f.unlinked
        THEN [files |-> files, intact |-> intact]
        ELSE [files  |-> [files EXCEPT ![path] = File(data)],
              intact |-> IF data = f.content THEN intact \cup {path}
                         ELSE intact \ {path}]

\* os.write(fd, content) raises OSError: nothing is written; os.close(fd).
PersistWriteFails(c) ==
    LET f == fs[c] IN
    /\ f.pc = "write"
    /\ fs' = [fs EXCEPT ![c] = Raised(f, Err("OSError", "write"))]
    /\ UNCHANGED <<callers, env, docs, perm, url_to_path, files, intact, last>>

\* os.write(fd, content) writes k bytes and returns k, then os.close(fd)
\* raises OSError (an error of the disk reported at close).
PersistCloseFails(c, k) ==
    LET f == fs[c] IN
    /\ f.pc = "write"
    /\ k \in WriteCounts(f.content)
    /\ files' = Written(c, k).files
    /\ intact' = Written(c, k).intact
    /\ fs' = [fs EXCEPT ![c] = Raised(f, Err("OSError", "write"))]
    /\ UNCHANGED <<callers, env, docs, perm, url_to_path, last>>

\* os.write(fd, content) writes k bytes and returns k, which fetch does not
\* look at; then os.close(fd).
PersistWrite(c, k) ==
    LET f == fs[c] IN
    /\ f.pc = "write"
    /\ k \in WriteCounts(f.content)
    /\ files' = Written(c, k).files
    /\ intact' = Written(c, k).intact
    /\ fs' = [fs EXCEPT ![c] = [f EXCEPT !.pc = "register"]]
    /\ UNCHANGED <<callers, env, docs, perm, url_to_path, last>>

\* One step of the write of the download by caller c, as the disk lets it
\* end.
Persist(c) ==
    \/ PersistOpen(c)
    \/ PersistWriteFails(c)
    \/ \E k \in EnvWriteCounts(fs[c].content) : PersistWrite(c, k)
    \/ \E k \in EnvWriteCounts(fs[c].content) : PersistCloseFails(c, k)

\* Faulty variant of Register: the download is registered under the URL the
\* last redirect led to.
RegisterUnderFinalUrl(c) ==
    LET f    == fs[c]
        path == CachePath(f.url)
    IN  /\ f.pc = "register"
        /\ url_to_path' = [url_to_path EXCEPT ![f.current_url] = path]
        /\ fs' = [fs EXCEPT ![c] = Returned(f, path)]
        /\ UNCHANGED <<callers, env, docs, perm, files, intact, last>>

\* Faulty variant of Register: the index is written back as a whole from the
\* copy read when the call began.
RegisterFromSnapshot(c) ==
    LET f    == fs[c]
        path == CachePath(f.url)
    IN  /\ f.pc = "register"
        /\ url_to_path' = [f.index0 EXCEPT ![f.url] = path]
        /\ fs' = [fs EXCEPT ![c] = Returned(f, path)]
        /\ UNCHANGED <<callers, env, docs, perm, files, intact, last>>

\* Faulty variant of Register: the path registered and returned is the one
\* named after the URL the last redirect led to.
RegisterResponsePath(c) ==
    LET f    == fs[c]
        path == CachePath(f.current_url)
    IN  /\ f.pc = "register"
        /\ url_to_path' = [url_to_path EXCEPT ![f.url] = path]
        /\ fs' = [fs EXCEPT ![c] = Returned(f, path)]
        /\ UNCHANGED <<callers, env, docs, perm, files, intact, last>>

\* self._url_to_path[url] = local_path; return local_path
Register(c) ==
    LET f    == fs[c]
        path == CachePath(f.url)
    IN  /\ f.pc = "register"
        /\ url_to_path' = [url_to_path EXCEPT ![f.url] = path]
        /\ fs' = [fs EXCEPT ![c] = Returned(f, path)]
        /\ UNCHANGED <<callers, env, docs, perm, files, intact, last>>

\* ------------------------------------------------------------ other calls

\* self.cache_dir.glob("*.pdf")
GlobPdf(fls) ==
    {p \in DOMAIN fls : fls[p].exists
                        /\ EndsWith(p.file, <<".", "p", "d", "f">>)}

\* The calls after the removal of the files `gone`: a file a fetch holds open
\* for its write has no name any more.
Unnamed(gone) ==
    [d \in callers |->
        IF fs[d].pc = "write" /\ CachePath(fs[d].url) \in gone
        THEN [fs[d] EXCEPT !.unlinked = TRUE]
        ELSE fs[d]]

\* What a removal of the files `gone` leaves of the history.
Forget(gone) ==
    /\ intact' = intact \ gone
    /\ last' = IF last.path \in gone THEN NoLast ELSE last

\* clear_cache begins: the directory is listed (the glob reads it at once).
ClearBegin(c) ==
    LET f == [IdleRec EXCEPT !.op = "clear_cache", !.pc = "unlink",
                             !.todo = GlobPdf(files),
                             !.files0 = files, !.index0 = url_to_path]
    IN  /\ Idle(c)
        /\ fs' = Begun(c, f)
        /\ UNCHANGED <<callers, env, docs, perm, url_to_path, files, intact, last>>

\* Faulty variant of ClearUnlink: every file met is counted, deleted or not.
ClearUnlinkCountsAttempts(c) ==
    LET f == fs[c] IN
    /\ f.pc = "unlink"
    /\ \E p \in f.todo :
          LET g == [f EXCEPT !.todo = @ \ {p}, !.count = @ + 1]
          IN  \/ /\ Exists(files, p)
                 /\ files' = [files EXCEPT ![p] = NoFile]
                 /\ Forget({p})
                 /\ perm' = Unlinked({p})
                 /\ fs' = [Unnamed({p}) EXCEPT ![c] = g]
              \/ /\ fs' = [fs EXCEPT ![c] = g]
                 /\ UNCHANGED <<files, intact, last, perm>>
    /\ UNCHANGED <<callers, env, docs, url_to_path>>

\* One turn of the loop of clear_cache, on a file of the listing, in the
\* order the directory gave them: path.unlink() removes the file and it is
\* counted, or it raises OSError (the file is gone by now, or it cannot be
\* removed), which is passed over.
ClearUnlink(c) ==
    LET f == fs[c] IN
    /\ f.pc = "unlink"
    /\ \E p \in f.todo :
          \/ /\ Exists(files, p)
             /\ files' = [files EXCEPT ![p] = NoFile]
             /\ Forget({p})
             /\ perm' = Unlinked({p})
             /\ fs' = [Unnamed({p}) EXCEPT
                         ![c] = [f EXCEPT !.todo = @ \ {p}, !.count = @ + 1]]
          \/ /\ fs' = [fs EXCEPT ![c] = [f EXCEPT !.todo = @ \ {p}]]
             /\ UNCHANGED <<files, intact, last, perm>>
    /\ UNCHANGED <<callers, env, docs, url_to_path>>

\* self._url_to_path.clear(); return count
ClearIndex(c) ==
    LET f == fs[c] IN
    /\ f.pc = "unlink"
    /\ f.todo = {}
    /\ url_to_path' = EmptyIndex
    /\ fs' = [fs EXCEPT ![c] = [f EXCEPT !.pc = "done"]]
    /\ UNCHANGED <<callers, env, docs, perm, files, intact, last>>

\* One step of clear_cache.
ClearStep(c) == ClearUnlink(c) \/ ClearIndex(c)

\* round(total_size / (1024 * 1024), 2), in hundredths of a megabyte
RoundMb(total) ==
    LET whole == total \div (1024 * 1024)
        part  == (total % (1024 * 1024)) * 100
        q     == whole * 100 + part \div (1024 * 1024)
        r     == part % (1024 * 1024)
    IN  IF 2 * r > 1024 * 1024 THEN q + 1
        ELSE IF 2 * r < 1024 * 1024 THEN q
        ELSE IF q % 2 = 0 THEN q ELSE q + 1

\* get_local_path step by step, as the threads of other callers see it; the
\* steps are those of a call of get_local_path and of the one fetch makes.
\* A call of get_local_path begins.
LookupBegin(c, url) ==
    LET f == [IdleRec EXCEPT !.op = "get_local_path", !.url = url,
                             !.pc = "index",
                             !.cached0 = (GetLocalPath(url_to_path, files, url).path # NoPath),
                             !.files0 = files, !.index0 = url_to_path]
    IN  /\ Idle(c)
        /\ fs' = Begun(c, f)
        /\ UNCHANGED <<callers, env, docs, perm, url_to_path, files, intact, last>>

\* Faulty variant of LookupIndex: the cache is not looked at, nothing is found.
LookupIndexAlwaysMiss(c) ==
    LET f == fs[c] IN
    /\ f.pc = "index"
    /\ \E n \in Chains(f) : fs' = [fs EXCEPT ![c] = Missed(f, n)]
    /\ UNCHANGED <<callers, env, docs, perm, url_to_path, files, intact, last>>

\* if url in self._url_to_path
LookupIndex(c) ==
    LET f == fs[c] IN
    /\ f.pc = "index"
    /\ fs' = [fs EXCEPT ![c] = [f EXCEPT !.pc = IF url_to_path[f.url] # NoPath
                                                 THEN "entry" ELSE "probe"]]
    /\ UNCHANGED <<callers, env, docs, perm, url_to_path, files, intact, last>>

\* path = self._url_to_path[url]: KeyError when the entry is gone by now
LookupEntry(c) ==
    LET f == fs[c] IN
    /\ f.pc = "entry"
    /\ fs' = [fs EXCEPT ![c] =
                 IF url_to_path[f.url] = NoPath
                 THEN Raised(f, Err("KeyError", "url"))
                 ELSE [f EXCEPT !.pc = "exists", !.path = url_to_path[f.url]]]
    /\ UNCHANGED <<callers, env, docs, perm, url_to_path, files, intact, last>>

\* Faulty variant of LookupExists: the entry is returned without looking
\* whether its file still exists.
LookupExistsTrustsIndex(c) ==
    LET f == fs[c] IN
    /\ f.pc = "exists"
    /\ fs' = [fs EXCEPT ![c] = Returned(f, f.path)]
    /\ UNCHANGED <<callers, env, docs, perm, url_to_path, files, intact, last>>

\* if path.exists(): return path
LookupExists(c) ==
    LET f == fs[c] IN
    /\ f.pc = "exists"
    /\ fs' = [fs EXCEPT ![c] = IF Exists(files, f.path)
                               THEN Returned(f, f.path)
                               ELSE [f EXCEPT !.pc = "probe"]]
    /\ UNCHANGED <<callers, env, docs, perm, url_to_path, files, intact, last>>

\* Faulty variant of LookupProbe: the path is entered in the index without
\* looking whether the file exists.
LookupProbeRegistersMiss(c) ==
    LET f == fs[c] IN
    /\ f.pc = "probe"
    /\ url_to_path' = [url_to_path EXCEPT ![f.url] = CachePath(f.url)]
    /\ IF Exists(files, CachePath(f.url))
       THEN fs' = [fs EXCEPT ![c] = [f EXCEPT !.pc = "backfill",
                                              !.path = CachePath(f.url)]]
       ELSE \E n \in Chains(f) : fs' = [fs EXCEPT ![c] = Missed(f, n)]
    /\ UNCHANGED <<callers, env, docs, perm, files, intact, last>>

\* Faulty variant of LookupProbe: the cache directory is not probed, only
\* the index counts.
LookupProbeSkipped(c) ==
    LET f == fs[c] IN
    /\ f.pc = "probe"
    /\ \E n \in Chains(f) : fs' = [fs EXCEPT ![c] = Missed(f, n)]
    /\ UNCHANGED <<callers, env, docs, perm, url_to_path, files, intact, last>>

\* Then the disk: path.exists() on cache_dir / filename; return None
LookupProbe(c) ==
    LET f == fs[c] IN
    /\ f.pc = "probe"
    /\ IF Exists(files, CachePath(f.url))
       THEN fs' = [fs EXCEPT ![c] = [f EXCEPT !.pc = "backfill",
                                              !.path = CachePath(f.url)]]
       ELSE \E n \in Chains(f) : fs' = [fs EXCEPT ![c] = Missed(f, n)]
    /\ UNCHANGED <<callers, env, docs, perm, url_to_path, files, intact, last>>

\* Faulty variant of LookupBackfill: the file found by the disk probe is
\* returned but not entered in the index.
LookupBackfillSkipped(c) ==
    LET f == fs[c] IN
    /\ f.pc = "backfill"
    /\ fs' = [fs EXCEPT ![c] = Returned(f, f.path)]
    /\ UNCHANGED <<callers, env, docs, perm, url_to_path, files, intact, last>>

\* Then the entry: self._url_to_path[url] = path; return path
LookupBackfill(c) ==
    LET f == fs[c] IN
    /\ f.pc = "backfill"
    /\ url_to_path' = [url_to_path EXCEPT ![f.url] = f.path]
    /\ fs' = [fs EXCEPT ![c] = Returned(f, f.path)]
    /\ UNCHANGED <<callers, env, docs, perm, files, intact, last>>

\* One step of get_local_path, in a lookup or in a fetch.
LookupStep(c) ==
    \/ LookupIndex(c)
    \/ LookupEntry(c)
    \/ LookupExists(c)
    \/ LookupProbe(c)
    \/ LookupBackfill(c)

\* Faulty variant of StatsBegin: the files counted are those of the index.
StatsBeginFromIndex(c) ==
    LET listed == {url_to_path[u] : u \in URLs} \ {NoPath}
        f == [IdleRec EXCEPT !.op = "get_cache_stats", !.pc = "stat",
                             !.todo = listed,
                             !.stats = [NoStats EXCEPT !.cached_files = Cardinality(listed)],
                             !.files0 = files, !.index0 = url_to_path]
    IN  /\ Idle(c)
        /\ fs' = Begun(c, f)
        /\ UNCHANGED <<callers, env, docs, perm, url_to_path, files, intact, last>>

\* get_cache_stats begins: files = list(self.cache_dir.glob("*.pdf"))
StatsBegin(c) ==
    LET listed == GlobPdf(files)
        f == [IdleRec EXCEPT !.op = "get_cache_stats", !.pc = "stat",
                             !.todo = listed,
                             !.stats = [NoStats EXCEPT !.cached_files = Cardinality(listed)],
                             !.files0 = files, !.index0 = url_to_path]
    IN  /\ Idle(c)
        /\ fs' = Begun(c, f)
        /\ UNCHANGED <<callers, env, docs, perm, url_to_path, files, intact, last>>

\* One term of sum(f.stat().st_size for f in files), on a file of the list in
\* the order the directory gave them: the size of the file as it is by now,
\* FileNotFoundError when the file is gone by now.
StatsStat(c) ==
    LET f == fs[c] IN
    /\ f.pc = "stat"
    /\ \E p \in f.todo :
          fs' = [fs EXCEPT ![c] =
                   IF Exists(files, p)
                   THEN [f EXCEPT !.todo = @ \ {p},
                                  !.stats.total_size_bytes = @ + BLen(files[p].data)]
                   ELSE Raised(f, Err("FileNotFoundError", "stat"))]
    /\ UNCHANGED <<callers, env, docs, perm, url_to_path, files, intact, last>>

\* Faulty variant of StatsEnd: the index entries whose file is gone are
\* dropped on the way.
StatsEndPrunesIndex(c) ==
    LET f == fs[c] IN
    /\ f.pc = "stat"
    /\ f.todo = {}
    /\ fs' = [fs EXCEPT ![c] =
                 [f EXCEPT !.pc = "done",
                           !.stats.total_size_mb = RoundMb(f.stats.total_size_bytes)]]
    /\ url_to_path' = [u \in DOMAIN url_to_path |->
                          IF url_to_path[u] # NoPath /\ Exists(files, url_to_path[u])
                          THEN url_to_path[u] ELSE NoPath]
    /\ UNCHANGED <<callers, env, docs, perm, files, intact, last>>

\* The sum is complete: the dictionary with len(files), the total and the
\* total in megabytes is returned.
StatsEnd(c) ==
    LET f == fs[c] IN
    /\ f.pc = "stat"
    /\ f.todo = {}
    /\ fs' = [fs EXCEPT ![c] =
                 [f EXCEPT !.pc = "done",
                           !.stats.total_size_mb = RoundMb(f.stats.total_size_bytes)]]
    /\ UNCHANGED <<callers, env, docs, perm, url_to_path, files, intact, last>>

\* One step of get_cache_stats.
StatsStep(c) == StatsStat(c) \/ StatsEnd(c)

\* The caller takes the call's outcome.
Return(c) ==
    LET f == fs[c] IN
    /\ f.pc = "done"
    /\ fs' = [d \in callers |->
                 IF d = c THEN IdleRec ELSE [fs[d] EXCEPT !.prior = @ \ {c}]]
    /\ last' = IF f.op # "fetch" \/ ~env.track THEN last
               ELSE IF f.result = NoPath THEN NoLast
               ELSE [url |-> f.url, path |-> f.result, nbody |-> f.nbody,
                     nredir |-> f.nredir, cached0 |-> f.cached0,
                     proc |-> env.proc]
    /\ UNCHANGED <<callers, env, docs, perm, url_to_path, files, intact>>

\* Something outside the fetcher removes a cached file.
ExternalRemove(p) ==
    /\ Exists(files, p)
    /\ files' = [files EXCEPT ![p] = NoFile]
    /\ Forget({p})
    /\ perm' = Unlinked({p})
    /\ fs' = Unnamed({p})
    /\ UNCHANGED <<callers, env, docs, url_to_path>>

\* b"%PDF-1.4"
PLANTED == <<Run("%", 1), Run("P", 1), Run("D", 1), Run("F", 1),
             Run("-", 1), Run("1", 1), Run(".", 1), Run("4", 1)>>

\* Something outside the fetcher writes a PDF at the cache path of a URL,
\* between calls.
ExternalAdd(url) ==
    /\ AllIdle
    /\ files' = [files EXCEPT ![CachePath(url)] = File(PLANTED)]
    /\ intact' = intact \cup {CachePath(url)}
    /\ perm' = [perm EXCEPT !.file[CachePath(url)] =
                  WrittenMode(@, files[CachePath(url)].exists, perm.umask)]
    /\ UNCHANGED <<callers, env, docs, url_to_path, last, fs>>

\* ------------------------------------------------------------ document
\* content cache: operations

\* A record created at `created` has not reached the TTL of cache `d`.
Fresh(d, created) == d.now - created < d.ttl

\* Faulty variant of GetMetadataOf: the record is returned whatever its age.
GetMetadataOfAnyAge(d, id) == d.meta[id]

\* get_metadata(identity): the record, NoMeta for absent.
GetMetadataOf(d, id) ==
    IF d.meta[id].has /\ Fresh(d, d.meta[id].created) THEN d.meta[id] ELSE NoMeta

\* get_page_text(identity, page_index): the text, NoText for absent.
GetPageTextOf(d, id, i) ==
    IF d.pages[id][i].has /\ Fresh(d, d.pages[id][i].created)
    THEN d.pages[id][i] ELSE NoText

\* Faulty variant of GetPagesTextOf: every index asked for is a key of the
\* result.
GetPagesTextOfAllKeys(d, id, indices) ==
    [i \in indices |-> d.pages[id][i].text]

\* get_pages_text(identity, indices): index -> text, over the indices that
\* are present and unexpired.
GetPagesTextOf(d, id, indices) ==
    [i \in {j \in indices : GetPageTextOf(d, id, j).has} |-> d.pages[id][i].text]

\* Faulty variant of DocStats: every stored record counts as a file.
DocStatsCountsRecords(d) ==
    LET n == Cardinality({id \in Identities : d.meta[id].has})
             + Cardinality({x \in Identities \X PageIndices : d.pages[x[1]][x[2]].has})
    IN  [total_files |-> n, total_pages |-> n]

\* stats(): the stored metadata records and the stored page texts, counted.
DocStats(d) ==
    [total_files |-> Cardinality({id \in Identities : d.meta[id].has}),
     total_pages |-> Cardinality({x \in Identities \X PageIndices :
                                     d.pages[x[1]][x[2]].has})]

\* An hour passes.
Tick ==
    /\ docs.now < MaxTime
    /\ docs' = [docs EXCEPT !.now = @ + 1, !.out = NoOut]
    /\ UNCHANGED <<callers, env, url_to_path, files, intact, last, fs, perm>>

\* save_metadata(identity, page_count, metadata, toc)
SaveMetadata(id, page_count) ==
    /\ docs' = [docs EXCEPT
                  !.meta[id] = [has |-> TRUE, page_count |-> page_count,
                                created |-> docs.now],
                  !.out = NoOut]
    /\ UNCHANGED <<callers, env, url_to_path, files, intact, last, fs, perm>>

\* save_page_text(identity, page_index, text)
SavePageText(id, i, text) ==
    /\ docs' = [docs EXCEPT
                  !.pages[id][i] = [has |-> TRUE, text |-> text, created |-> docs.now],
                  !.out = NoOut]
    /\ UNCHANGED <<callers, env, url_to_path, files, intact, last, fs, perm>>

\* A call of get_metadata.
GetMetadata(id) ==
    /\ docs' = [docs EXCEPT !.out = [NoOut EXCEPT !.op = "get_metadata",
                                                   !.identity = id,
                                                   !.meta = GetMetadataOf(docs, id)]]
    /\ UNCHANGED <<callers, env, url_to_path, files, intact, last, fs, perm>>

\* A call of get_page_text.
GetPageText(id, i) ==
    /\ docs' = [docs EXCEPT !.out = [NoOut EXCEPT !.op = "get_page_text",
                                                   !.identity = id, !.page = i,
                                                   !.text = GetPageTextOf(docs, id, i)]]
    /\ UNCHANGED <<callers, env, url_to_path, files, intact, last, fs, perm>>

\* A call of get_pages_text.
GetPagesText(id, indices) ==
    /\ docs' = [docs EXCEPT !.out = [NoOut EXCEPT !.op = "get_pages_text",
                                                   !.identity = id, !.indices = indices,
                                                   !.texts = GetPagesTextOf(docs, id, indices)]]
    /\ UNCHANGED <<callers, env, url_to_path, files, intact, last, fs, perm>>

\* A call of stats()
GetDocStats ==
    /\ docs' = [docs EXCEPT !.out = [NoOut EXCEPT !.op = "stats",
                                                  !.stats = DocStats(docs)]]
    /\ UNCHANGED <<callers, env, url_to_path, files, intact, last, fs, perm>>

\* clear_all(); `removed` keeps, as history, what the cache held.
ClearAll ==
    /\ docs' = [docs EXCEPT !.meta = [id \in Identities |-> NoMeta],
                            !.pages = [id \in Identities |-> [i \in PageIndices |-> NoText]],
                            !.out = [NoOut EXCEPT !.op = "clear_all",
                                                  !.removed = DocStats(docs)]]
    /\ UNCHANGED <<callers, env, url_to_path, files, intact, last, fs, perm>>

\* The URLs callers look up.
LookupURLs == CallURLs \cup LookupOnlyURLs

\* The URLs at whose cache path a file may appear from outside.
PlantURLs == {U_API}

Next ==
    \/ \E c \in callers, url \in CallURLs, force \in BOOLEAN : FetchBegin(c, url, force)
    \/ \E c \in callers : LookupStep(c)
    \/ \E c \in callers : HopTransportError(c)
    \/ \E c \in callers : HopRedirect(c)
    \/ \E c \in callers : HopRequest(c)
    \/ \E c \in callers : HopFinal(c)
    \/ \E c \in callers : StreamChunk(c)
    \/ \E c \in callers : StreamTransportError(c)
    \/ \E c \in callers : StreamEnd(c)
    \/ \E c \in callers : Persist(c)
    \/ \E c \in callers : Register(c)
    \/ \E c \in callers, url \in CallURLs : LookupBegin(c, url)
    \/ \E c \in callers : ClearBegin(c)
    \/ \E c \in callers : ClearStep(c)
    \/ \E c \in callers : Return(c)
    \/ \E p \in Paths : AllIdle /\ ExternalRemove(p)

Spec == Init /\ [][Next]_vars

\* Two fetches in a row under plain servers, with the first one remembered.
InitTwice == InitWith(Sequential, Env(0..MaxChain, FALSE, TRUE))

SpecTwice == InitTwice /\ [][Next]_vars

\* Redirect chains up to one past the cap, under plain servers.
InitRedirects ==
    InitWith(Sequential, Env(0..(MAX_REDIRECTS + 1), FALSE, FALSE))

SpecRedirects == InitRedirects /\ [][Next]_vars

\* The cache in use under plain servers: besides fetching, callers look up
\* URLs that were never fetched and ask for the figures of the cache, and
\* files appear at cache paths from outside.
InitCache == InitWith(Sequential, Env(0..MaxChain, FALSE, FALSE))

NextCache ==
    \/ \E c \in callers, url \in CallURLs, force \in BOOLEAN : FetchBegin(c, url, force)
    \/ \E c \in callers : LookupStep(c)
    \/ \E c \in callers : HopTransportError(c)
    \/ \E c \in callers : HopRedirect(c)
    \/ \E c \in callers : HopRequest(c)
    \/ \E c \in callers : HopFinal(c)
    \/ \E c \in callers : StreamChunk(c)
    \/ \E c \in callers : StreamTransportError(c)
    \/ \E c \in callers : StreamEnd(c)
    \/ \E c \in callers : Persist(c)
    \/ \E c \in callers : Register(c)
    \/ \E c \in callers, url \in LookupURLs : LookupBegin(c, url)
    \/ \E c \in callers : ClearBegin(c)
    \/ \E c \in callers : ClearStep(c)
    \/ \E c \in callers : StatsBegin(c)
    \/ \E c \in callers : StatsStep(c)
    \/ \E c \in callers : Return(c)
    \/ \E p \in Paths : AllIdle /\ ExternalRemove(p)
    \/ \E url \in PlantURLs : ExternalAdd(url)

SpecCache == InitCache /\ [][NextCache]_vars

\* How many times the process is replaced by a new one.
MaxRestarts == 1

\* The process ends and another begins on the same cache directory: it
\* constructs a URLFetcher of its own, which makes the directory if it is
\* missing, sets its mode and starts with an empty index; the files stay
\* where they are.
Restart ==
    /\ AllIdle
    /\ env.proc < MaxRestarts
    /\ env' = [env EXCEPT !.proc = @ + 1]
    /\ url_to_path' = EmptyIndex
    /\ perm' = [perm EXCEPT !.dir = DirModeAfterInit(perm.umask)]
    /\ UNCHANGED <<callers, docs, files, intact, last, fs>>

\* The cache file names across fetcher instances: under servers that answer
\* every request with a body and without redirects, callers fetch and look
\* URLs up, files appear from outside at the cache paths of the URLs that
\* are only looked up, and the process is replaced by a new one; the last
\* fetch is kept as history.
FetchedNameURLs == {U_OLD}

PlantedNameURLs == {U_QUERY, U_FRAG, U_ODD, U_LATIN}

NameURLs == FetchedNameURLs \cup PlantedNameURLs

InitNames == InitWith(Sequential, Env(0..0, FALSE, TRUE))

NextNames ==
    \/ \E c \in callers, url \in FetchedNameURLs : FetchBegin(c, url, FALSE)
    \/ \E c \in callers : HopRequest(c)
    \/ \E c \in callers : HopFinal(c)
    \/ \E c \in callers : StreamChunk(c)
    \/ \E c \in callers : StreamEnd(c)
    \/ \E c \in callers : Persist(c)
    \/ \E c \in callers : Register(c)
    \/ \E c \in callers, url \in NameURLs : LookupBegin(c, url)
    \/ \E c \in callers : LookupStep(c)
    \/ \E c \in callers : Return(c)
    \/ \E url \in PlantedNameURLs : ExternalAdd(url)
    \/ Restart

SpecNames == InitNames /\ [][NextNames]_vars

\* Two callers at once, each in a thread of its own, on one fetcher, under
\* servers that answer every request and without redirects: every step of a
\* fetch or lookup of one may fall between two steps of the other's.
Concurrent == {1, 2}

\* The URLs two callers fetch at once.
SharedURLs == {U_OLD}

InitConcurrent ==
    InitWith(Concurrent, Env(0..0, FALSE, FALSE))

NextConcurrent ==
    \/ \E c \in callers, url \in SharedURLs, force \in BOOLEAN : FetchBegin(c, url, force)
    \/ \E c \in callers : LookupStep(c)
    \/ \E c \in callers : HopRequest(c)
    \/ \E c \in callers : HopFinal(c)
    \/ \E c \in callers : StreamChunk(c)
    \/ \E c \in callers : StreamEnd(c)
    \/ \E c \in callers : Persist(c)
    \/ \E c \in callers : Register(c)
    \/ \E c \in callers, url \in SharedURLs : LookupBegin(c, url)
    \/ \E c \in callers : Return(c)

SpecConcurrent == InitConcurrent /\ [][NextConcurrent]_vars

\* Two callers at once on different URLs, servers that answer every request
\* and without redirects: fetches and step-by-step lookups of the two URLs interleave.
IndexURLs == {U_OLD, U_API}

\* Each caller fetches a URL of its own.
FetchedBy == <<U_OLD, U_API>>

InitIndex ==
    InitWith(Concurrent, Env(0..0, FALSE, FALSE))

NextIndex ==
    \/ \E c \in callers : FetchBegin(c, FetchedBy[c], FALSE)
    \/ \E c \in callers : LookupStep(c)
    \/ \E c \in callers : HopRequest(c)
    \/ \E c \in callers : HopFinal(c)
    \/ \E c \in callers : StreamChunk(c)
    \/ \E c \in callers : StreamEnd(c)
    \/ \E c \in callers : Persist(c)
    \/ \E c \in callers : Register(c)
    \/ \E c \in callers, url \in IndexURLs : LookupBegin(c, url)
    \/ \E c \in callers : Return(c)

SpecIndex == InitIndex /\ [][NextIndex]_vars

\* The cache in use under each umask a process may run under.
InitPerms ==
    /\ callers = Sequential
    /\ env = Env(0..1, FALSE, FALSE)
    /\ url_to_path = EmptyIndex
    /\ files = EmptyFiles
    /\ intact = {}
    /\ last = NoLast
    /\ fs = [c \in Sequential |-> IdleRec]
    /\ \E umask \in Umasks : perm = InitPerm(umask)
    /\ docs = InitDocs(TTL_HOURS)

SpecPerms == InitPerms /\ [][NextCache]_vars

\* The Document Content Cache alone.
InitContent ==
    /\ callers = Sequential
    /\ env = Env(0..0, FALSE, FALSE)
    /\ url_to_path = EmptyIndex
    /\ files = EmptyFiles
    /\ intact = {}
    /\ last = NoLast
    /\ fs = [c \in Sequential |-> IdleRec]
    /\ perm = InitPerm(Umask022)
    /\ docs = InitDocs(TTL_HOURS)

NextContent ==
    \/ Tick
    \/ \E id \in Identities, n \in PageCounts : SaveMetadata(id, n)
    \/ \E id \in PagedIdentities, i \in SavedIndices, text \in Texts : SavePageText(id, i, text)
    \/ \E id \in Identities : GetMetadata(id)
    \/ \E id \in Identities, i \in PageIndices : GetPageText(id, i)
    \/ \E id \in Identities, indices \in SUBSET PageIndices : GetPagesText(id, indices)
    \/ GetDocStats
    \/ ClearAll

SpecContent == InitContent /\ [][NextContent]_vars

\* Cached files of URLs the guard rejects: files appear from outside at the
\* cache paths of two rejected URLs, lookups enter them in the index, and
\* callers fetch.
GuardedURLs == {U_LOCAL, U_CORP}

InitGuarded ==
    InitWith(Sequential, Env(0..1, FALSE, FALSE))

NextGuarded ==
    \/ \E c \in callers, url \in CallURLs, force \in BOOLEAN : FetchBegin(c, url, force)
    \/ \E c \in callers : LookupStep(c)
    \/ \E c \in callers : HopTransportError(c)
    \/ \E c \in callers : HopRedirect(c)
    \/ \E c \in callers : HopRequest(c)
    \/ \E c \in callers : HopFinal(c)
    \/ \E c \in callers : StreamChunk(c)
    \/ \E c \in callers : StreamTransportError(c)
    \/ \E c \in callers : StreamEnd(c)
    \/ \E c \in callers : Persist(c)
    \/ \E c \in callers : Register(c)
    \/ \E c \in callers, url \in GuardedURLs : LookupBegin(c, url)
    \/ \E c \in callers : ClearBegin(c)
    \/ \E c \in callers : ClearStep(c)
    \/ \E c \in callers : Return(c)
    \/ \E url \in GuardedURLs : ExternalAdd(url)

SpecGuarded == InitGuarded /\ [][NextGuarded]_vars

\* The name servers of cdn.example.com change their answer, at any time:
\* from its public addresses to the metadata address and back.
DnsRebind ==
    /\ env' = [env EXCEPT !.rebound = ~@]
    /\ UNCHANGED <<callers, url_to_path, files, intact, last, fs, perm, docs>>

\* Fetches of a URL of example.com and of one of cdn.example.com, with
\* redirects between them, while the answer for cdn.example.com changes.
RebindURLs == {U_OLD, U_NEW}

InitRebind ==
    InitWith(Sequential, Env(0..1, FALSE, FALSE))

NextRebind ==
    \/ \E c \in callers, url \in RebindURLs, force \in BOOLEAN : FetchBegin(c, url, force)
    \/ \E c \in callers : LookupStep(c)
    \/ \E c \in callers : HopTransportError(c)
    \/ \E c \in callers : HopRedirect(c)
    \/ \E c \in callers : HopRequest(c)
    \/ \E c \in callers : HopFinal(c)
    \/ \E c \in callers : StreamChunk(c)
    \/ \E c \in callers : StreamTransportError(c)
    \/ \E c \in callers : StreamEnd(c)
    \/ \E c \in callers : Persist(c)
    \/ \E c \in callers : Register(c)
    \/ \E c \in callers : Return(c)
    \/ DnsRebind

SpecRebind == InitRebind /\ [][NextRebind]_vars

\* Two callers at once on one URL, under plain servers and with the order
\* of the calls kept: one fetches the URL and clears the cache, the other
\* looks the URL up, asks for the statistics and clears the cache; every
\* step of a call of one may fall between two steps of a call of the other.
ClearURLs == {U_OLD}

InitClear ==
    InitWith(Concurrent, [Env(0..0, FALSE, FALSE) EXCEPT !.order = TRUE])

NextClear ==
    \/ \E url \in ClearURLs : FetchBegin(1, url, FALSE)
    \/ HopRequest(1)
    \/ HopFinal(1)
    \/ StreamChunk(1)
    \/ StreamEnd(1)
    \/ Persist(1)
    \/ Register(1)
    \/ \E url \in ClearURLs : LookupBegin(2, url)
    \/ StatsBegin(2)
    \/ StatsStep(2)
    \/ \E c \in callers : LookupStep(c)
    \/ \E c \in callers : ClearBegin(c)
    \/ \E c \in callers : ClearStep(c)
    \/ \E c \in callers : Return(c)

SpecClear == InitClear /\ [][NextClear]_vars

\* Fetches of three URLs, two with a path that ends in ".pdf" and one
\* without, with the statistics and clear_cache between them.
ScanURLs == {U_OLD, U_API, U_ODD}

InitScan ==
    InitWith(Sequential, Env(0..0, FALSE, FALSE))

NextScan ==
    \/ \E c \in callers, url \in ScanURLs, force \in BOOLEAN : FetchBegin(c, url, force)
    \/ \E c \in callers : LookupStep(c)
    \/ \E c \in callers : HopRequest(c)
    \/ \E c \in callers : HopFinal(c)
    \/ \E c \in callers : StreamChunk(c)
    \/ \E c \in callers : StreamEnd(c)
    \/ \E c \in callers : Persist(c)
    \/ \E c \in callers : Register(c)
    \/ \E c \in callers : ClearBegin(c)
    \/ \E c \in callers : ClearStep(c)
    \/ \E c \in callers : StatsBegin(c)
    \/ \E c \in callers : StatsStep(c)
    \/ \E c \in callers : Return(c)

SpecScan == InitScan /\ [][NextScan]_vars

\* Fetches and lookups of two URLs on a tight disk, under plain servers and
\* without redirects: a write may end after each of its first bytes.
DiskURLs == {U_OLD, U_API}

InitDisk ==
    InitWith(Sequential, [Env(0..0, FALSE, FALSE) EXCEPT !.tight = TRUE])

NextDisk ==
    \/ \E c \in callers, url \in DiskURLs, force \in BOOLEAN : FetchBegin(c, url, force)
    \/ \E c \in callers : LookupStep(c)
    \/ \E c \in callers : HopRequest(c)
    \/ \E c \in callers : HopFinal(c)
    \/ \E c \in callers : StreamChunk(c)
    \/ \E c \in callers : StreamEnd(c)
    \/ \E c \in callers : Persist(c)
    \/ \E c \in callers : Register(c)
    \/ \E c \in callers, url \in DiskURLs : LookupBegin(c, url)
    \/ \E c \in callers : Return(c)

SpecDisk == InitDisk /\ [][NextDisk]_vars

\* Bodies up to a byte over the maximum, read chunk by chunk: fetches of one
\* URL under rich servers that also send these bodies, without redirects.
StreamURLs == {U_OLD}

InitStream ==
    InitWith(Sequential, [Env(0..0, TRUE, FALSE) EXCEPT !.big = TRUE])

NextStream ==
    \/ \E c \in callers, url \in StreamURLs : FetchBegin(c, url, FALSE)
    \/ \E c \in callers : LookupStep(c)
    \/ \E c \in callers : HopTransportError(c)
    \/ \E c \in callers : HopRequest(c)
    \/ \E c \in callers : HopFinal(c)
    \/ \E c \in callers : StreamChunk(c)
    \/ \E c \in callers : StreamTransportError(c)
    \/ \E c \in callers : StreamEnd(c)
    \/ \E c \in callers : Persist(c)
    \/ \E c \in callers : Register(c)
    \/ \E c \in callers : Return(c)

SpecStream == InitStream /\ [][NextStream]_vars

\* ------------------------------------------------------------ claims

Fetching(c) == fs[c].op = "fetch" /\ fs[c].pc # "idle"

FetchDone(c) == fs[c].op = "fetch" /\ fs[c].pc = "done"

\* The call of caller c has left the download cache as it found it.
CacheUntouched(c) == files = fs[c].files0 /\ url_to_path = fs[c].index0

\* C1: every URL a fetch sends a request to (the original one and each
\* redirect target) has passed the guard earlier in that call and is one of
\* the public URLs; a fetch that ends with BlockedURL has sent no request to
\* the rejected URL, returns no path and leaves files and index as they were.
C1_EveryHopValidated ==
    \A c \in callers :
        Fetching(c) =>
            /\ fs[c].requested \subseteq fs[c].validated
            /\ fs[c].requested \subseteq PublicURLs
            /\ (fs[c].pc = "done" /\ fs[c].err.kind = "BlockedURL") =>
                  /\ fs[c].rejected \notin fs[c].requested
                  /\ fs[c].result = NoPath
                  /\ fs[c].nbody = 0
                  /\ CacheUntouched(c)

\* A fetch of a public URL was redirected to the metadata address and ended
\* with BlockedURL after its first hop had passed.
C1_Witness ==
    \E c \in callers :
        /\ FetchDone(c)
        /\ fs[c].url = U_OLD
        /\ fs[c].requested = {U_OLD}
        /\ fs[c].rejected = U_META
        /\ fs[c].err = Err("BlockedURL", "private")

\* C2: a fetch of a URL the guard rejects (wrong scheme, no host, literal
\* localhost, unresolvable host, a private, loopback, link-local, reserved or
\* multicast address among the resolved ones) ends at once with BlockedURL: no request
\* was sent, no body byte was read, nothing was returned or cached, with and
\* without force_refresh.
C2_BlockedUrlNoRequest ==
    \A c \in callers :
        (Fetching(c) /\ fs[c].url \in BlockedURLs) =>
            /\ fs[c].pc = "done"
            /\ fs[c].err.kind = "BlockedURL"
            /\ fs[c].result = NoPath
            /\ fs[c].requested = {}
            /\ fs[c].iter = 0
            /\ fs[c].nbody = 0
            /\ fs[c].nread = 0
            /\ fs[c].total_size = 0
            /\ CacheUntouched(c)

\* A forced fetch of a host with one public and one private address was
\* rejected.
C2_Witness ==
    \E c \in callers :
        /\ FetchDone(c)
        /\ fs[c].url = U_MIXED
        /\ fs[c].force_refresh
        /\ fs[c].err = Err("BlockedURL", "private")

\* C3: whatever calls came before and however they ended, a path returned by
\* get_local_path or by a fetch names a file that holds a whole, validated
\* response body.
C3_NoPartialCacheHit ==
    \A c \in callers :
        (fs[c].pc = "done" /\ fs[c].op \in {"fetch", "get_local_path"}
                           /\ fs[c].result # NoPath) =>
            /\ Exists(files, fs[c].result)
            /\ fs[c].result \in intact

\* C4: a fetch that follows a successful fetch of the same URL, which began
\* with the URL not cached, with the file not removed in between: without
\* force_refresh it returns the same path and the two calls made one body
\* transfer, with force_refresh a successful one returns the same path and
\* the two calls made two.
C4_FetchTwice ==
    \A c \in callers :
        (FetchDone(c) /\ last.url = fs[c].url /\ ~last.cached0) =>
            IF ~fs[c].force_refresh
            THEN /\ fs[c].err = NoErr
                 /\ fs[c].result = last.path
                 /\ fs[c].iter = 0
                 /\ last.nbody + fs[c].nbody = 1
            ELSE fs[c].err = NoErr =>
                    /\ fs[c].result = last.path
                    /\ last.nbody + fs[c].nbody = 2

\* The second fetch of a URL, without force_refresh, has returned.
C4_Witness ==
    \E c \in callers :
        /\ FetchDone(c)
        /\ fs[c].url = U_OLD
        /\ last.url = U_OLD
        /\ ~last.cached0
        /\ ~fs[c].force_refresh
        /\ fs[c].result = CachePath(U_OLD)

\* The second fetch of a URL, with force_refresh, has returned.
C4_WitnessForced ==
    \E c \in callers :
        /\ FetchDone(c)
        /\ last.url = fs[c].url
        /\ ~last.cached0
        /\ fs[c].force_refresh
        /\ fs[c].err = NoErr

\* The errors of the fetcher's contract, all raised before the write.
ContractErrors == {"BlockedURL", "TooLarge", "NotAPDF", "TooManyRedirects",
                   "TransportError"}

\* C5: a fetch that ends with BlockedURL, TooLarge, NotAPDF, TooManyRedirects
\* or TransportError leaves every file and the index as they were when it
\* began; a URL that was cached then is still found by get_local_path, with
\* the same content.
C5_FailedFetchLeavesCache ==
    \A c \in callers :
        (FetchDone(c) /\ fs[c].err.kind \in ContractErrors) =>
            /\ CacheUntouched(c)
            /\ fs[c].result = NoPath
            /\ fs[c].cached0 =>
                  LET look == GetLocalPath(url_to_path, files, fs[c].url) IN
                  /\ look.path # NoPath
                  /\ files[look.path] = fs[c].files0[look.path]
                  /\ files[look.path].exists

\* A forced fetch of a cached URL failed on the content check.
C5_Witness ==
    \E c \in callers :
        /\ FetchDone(c)
        /\ fs[c].force_refresh
        /\ fs[c].cached0
        /\ fs[c].err.kind = "NotAPDF"
        /\ files[CachePath(fs[c].url)].data = PDF_MAGIC

\* The bytes of each body, written out.
BodyBytes(body) ==
    CASE body = BODY_PDF   -> <<Run("%", 1), Run("P", 1), Run("D", 1), Run("F", 1)>>
      [] body = BODY_HTML  -> <<Run("<", 1), Run("h", 1)>>
      [] body = BODY_MAX   -> <<Run("%", 1), Run("P", 1), Run("D", 1), Run("F", 1),
                                Run("x", 104857596)>>
      [] body = BODY_OVER  -> <<Run("%", 1), Run("P", 1), Run("D", 1), Run("F", 1),
                                Run("x", 104857597)>>
      [] body = BODY_JUNK  -> <<Run("<", 1), Run("h", 1), Run("x", 104857599)>>

\* The number of chunks each body comes in, counted out.
ChunksOf(body) ==
    CASE body = BODY_PDF   -> 1
      [] body = BODY_HTML  -> 1
      [] body = BODY_MAX   -> 12800
      [] body = BODY_OVER  -> 12801
      [] body = BODY_JUNK  -> 12801

\* The 16 hexadecimal digits the cache file name of each URL begins with,
\* written out.
DigestOf(url) ==
    CASE url = U_OLD     -> <<"7","3","f","6","0","2","7","d","d","c","9","2","e","9","1","8">>
      [] url = U_NEW     -> <<"b","d","c","9","4","f","d","1","4","6","4","1","5","d","4","2">>
      [] url = U_API     -> <<"7","a","3","2","d","4","6","8","4","f","0","f","5","a","6","e">>
      [] url = U_FTP     -> <<"4","c","8","6","8","f","5","8","2","3","f","3","6","7","1","3">>
      [] url = U_NOHOST  -> <<"c","0","c","d","d","9","f","e","2","f","6","0","0","f","8","8">>
      [] url = U_LOCAL   -> <<"c","9","6","6","a","7","1","f","3","a","d","5","7","6","a","c">>
      [] url = U_LOOP    -> <<"3","8","a","7","3","2","9","1","7","c","d","c","c","6","d","f">>
      [] url = U_META    -> <<"1","9","5","f","e","4","b","8","c","8","c","0","b","1","8","2">>
      [] url = U_CORP    -> <<"d","7","d","f","b","b","c","4","e","1","d","d","2","5","7","f">>
      [] url = U_NXDOM   -> <<"7","4","a","1","0","d","1","a","1","e","5","9","3","7","d","e">>
      [] url = U_MIXED   -> <<"f","1","2","0","2","3","3","5","4","2","4","c","7","7","f","5">>
      [] url = U_MCAST   -> <<"c","d","a","c","e","9","3","9","b","c","d","1","4","9","2","4">>
      [] url = U_RSVD    -> <<"b","f","f","7","0","0","c","6","e","b","d","5","a","2","8","4">>
      [] url = U_FILE    -> <<"0","e","7","a","5","a","5","c","1","0","c","b","e","8","8","a">>
      [] url = U_ZERO    -> <<"a","8","e","6","1","7","d","0","3","e","0","3","d","d","f","6">>
      [] url = U_V6LOOP  -> <<"2","1","c","8","b","a","a","c","f","0","6","f","7","8","1","9">>
      [] url = U_BADNAME -> <<"4","0","6","8","9","3","a","1","d","2","9","2","7","3","5","e">>
      [] url = U_DOC     -> <<"9","f","6","f","7","3","a","f","0","4","b","5","3","0","6","d">>
      [] url = U_QUERY   -> <<"2","7","2","8","2","d","1","1","7","d","4","a","8","4","c","0">>
      [] url = U_FRAG    -> <<"8","3","b","5","c","1","9","e","d","e","5","a","c","d","5","4">>
      [] url = U_ODD     -> <<"7","b","c","b","4","4","a","9","a","9","3","3","b","3","4","6">>
      [] url = U_LATIN   -> <<"b","4","1","b","6","7","e","2","d","b","9","9","7","6","e","a">>

\* The cache file name of each URL callers ask for and the guard lets pass.
NameOf(url) ==
    CASE url = U_OLD -> <<"_", "o", "l", "d", ".", "p", "d", "f">>
      [] url = U_API -> <<".", "p", "d", "f">>

\* C6: a fetch that returns returns cache_dir/filename_for(url), a file that
\* exists and that the index maps the URL to; when the fetch downloaded, the
\* file holds exactly the bytes of the response body, chunk after chunk.
C6_SuccessPersistsBody ==
    \A c \in callers :
        (FetchDone(c) /\ fs[c].err = NoErr) =>
            /\ fs[c].result = CachePath(fs[c].url)
            /\ fs[c].result.dir = "cache_dir"
            /\ fs[c].result.file = DigestOf(fs[c].url) \o NameOf(fs[c].url)
            /\ files[fs[c].result].exists
            /\ url_to_path[fs[c].url] = fs[c].result
            /\ fs[c].nbody = 1 => files[fs[c].result].data = BodyBytes(fs[c].body)

\* What the code keeps of C6: the path, the file and the index entry are as
\* said, and after a download the file holds the first bytes of the body, as
\* many as os.write wrote.
C6_SuccessPersistsWritten ==
    \A c \in callers :
        (FetchDone(c) /\ fs[c].err = NoErr) =>
            /\ fs[c].result = CachePath(fs[c].url)
            /\ fs[c].result.file = DigestOf(fs[c].url) \o NameOf(fs[c].url)
            /\ files[fs[c].result].exists
            /\ url_to_path[fs[c].url] = fs[c].result
            /\ fs[c].nbody = 1 =>
                  /\ BLen(files[fs[c].result].data) \in WriteCounts(BodyBytes(fs[c].body))
                  /\ files[fs[c].result].data =
                        BTake(BodyBytes(fs[c].body), BLen(files[fs[c].result].data))

\* A fetch has downloaded a body of four bytes and returned the path of a
\* file that holds the first two.
C6_WitnessShortWrite ==
    \E c \in callers :
        /\ FetchDone(c)
        /\ fs[c].err = NoErr
        /\ fs[c].body = BODY_PDF
        /\ fs[c].nbody = 1
        /\ files[fs[c].result].data = <<Run("%", 1), Run("P", 1)>>

\* A fetch has downloaded a body of two bytes and returned the path of a
\* file that holds the first one.
C6_WitnessOneByte ==
    \E c \in callers :
        /\ FetchDone(c)
        /\ fs[c].err = NoErr
        /\ fs[c].body = BODY_HTML
        /\ fs[c].nbody = 1
        /\ files[fs[c].result].data = <<Run("<", 1)>>

\* A fetch has returned the file of a body of four bytes, whole.
C6_Witness ==
    \E c \in callers :
        /\ FetchDone(c)
        /\ fs[c].err = NoErr
        /\ fs[c].body = BODY_PDF
        /\ fs[c].nbody = 1
        /\ files[fs[c].result].data = PDF_MAGIC

\* The Content-Length headers whose value is above the maximum.
OverLengths == {CL_OVER, CL_PADDED, CL_WIDE}

\* C7 as stated: a non-redirect response whose Content-Length is above the
\* maximum makes the fetch fail with TooLarge, no chunk read, nothing written
\* or registered.
C7_OverlongHeaderTooLarge ==
    \A c \in callers :
        (FetchDone(c) /\ fs[c].resp.status # 0
                      /\ fs[c].resp.content_length \in OverLengths) =>
            /\ fs[c].err.kind = "TooLarge"
            /\ fs[c].nread = 0
            /\ CacheUntouched(c)

\* C7 amended: a response that is no redirect and whose Content-Length is
\* above the maximum makes the fetch fail before the body loop: no chunk
\* read, nothing written or registered.  With a status that is no success
\* the fetch fails on the status, the first check, with TransportError; with
\* a successful one it fails with TooLarge.
C7_OverlongHeaderTooLargeOn2xx ==
    \A c \in callers :
        (Fetching(c) /\ fs[c].resp.status # 0
                     /\ fs[c].resp.content_length \in OverLengths) =>
            /\ fs[c].pc = "done"
            /\ fs[c].nread = 0
            /\ fs[c].nbody = 0
            /\ fs[c].total_size = 0
            /\ fs[c].result = NoPath
            /\ CacheUntouched(c)
            /\ fs[c].err.kind =
                  IF fs[c].resp.status \notin 200..299 THEN "TransportError"
                  ELSE "TooLarge"

\* A 200 response announced one byte more than the maximum.
C7_Witness ==
    \E c \in callers :
        /\ FetchDone(c)
        /\ fs[c].resp.status = 200
        /\ fs[c].resp.content_length = CL_OVER
        /\ fs[c].err = Err("TooLarge", "content-length")

\* A 206 response announced the same with two zeros in front.
C7_WitnessPadded ==
    \E c \in callers :
        /\ FetchDone(c)
        /\ fs[c].resp.status = 206
        /\ fs[c].resp.content_length.text =
              <<"0","0","1","0","4","8","5","7","6","0","1">>
        /\ fs[c].err = Err("TooLarge", "content-length")
        /\ fs[c].nread = 0

\* A 404 response announced one byte more than the maximum.
C7_WitnessStatus ==
    \E c \in callers :
        /\ FetchDone(c)
        /\ fs[c].resp.status = 404
        /\ fs[c].resp.content_length = CL_OVER
        /\ fs[c].err = Err("TransportError", "status")
        /\ fs[c].nread = 0

\* A 200 response announced a length of twenty digits.
C7_WitnessWide ==
    \E c \in callers :
        /\ FetchDone(c)
        /\ fs[c].resp.status = 200
        /\ Len(fs[c].resp.content_length.text) = 20
        /\ fs[c].err = Err("TooLarge", "content-length")
        /\ fs[c].nread = 0

\* C8: while a body is read the running total is the number of bytes of the
\* chunks held, one chunk more after each turn of the loop, and never passes
\* the maximum: the chunk that takes it past ends the fetch with TooLarge at
\* once, whether the Content-Length header is absent or not above the
\* maximum; no file ever holds more than the maximum; a body of exactly the
\* maximum is not refused for its size.
C8_StreamedSizeBound ==
    /\ \A p \in Paths : BLen(files[p].data) <= MAX_DOWNLOAD_SIZE
    /\ \A c \in callers :
          Fetching(c) =>
              /\ BLen(BJoin(fs[c].chunks)) <= MAX_DOWNLOAD_SIZE
              /\ fs[c].pc = "stream" =>
                    /\ fs[c].total_size = BLen(BJoin(fs[c].chunks))
                    /\ fs[c].nread = NumChunks(fs[c].chunks)
                    /\ fs[c].total_size + BLen(fs[c].stream) = BLen(fs[c].body)
              /\ (fs[c].pc # "done" \/ fs[c].err.kind # "TooLarge") =>
                    fs[c].total_size <= MAX_DOWNLOAD_SIZE
              /\ fs[c].err = Err("TooLarge", "stream") =>
                    /\ fs[c].total_size > MAX_DOWNLOAD_SIZE
                    /\ fs[c].total_size <= MAX_DOWNLOAD_SIZE + 8192
                    /\ fs[c].nread = NumChunks(fs[c].chunks) + 1
                    /\ fs[c].nread = 12801
                    /\ fs[c].body \in {BODY_OVER, BODY_JUNK}
                    /\ fs[c].resp.content_length \in {NoHdr, CL_MAX}
              /\ (fs[c].pc = "done" /\ fs[c].body \in {BODY_OVER, BODY_JUNK}) =>
                    fs[c].err.kind \in {"TooLarge", "TransportError"}
              /\ (fs[c].pc = "done" /\ fs[c].body = BODY_MAX) =>
                    fs[c].err.kind \in {"", "OSError", "TransportError"}

\* A body of exactly the maximum size, read in 12800 chunks, is in the cache.
C8_Witness ==
    \E c \in callers :
        /\ FetchDone(c)
        /\ fs[c].err = NoErr
        /\ fs[c].nread = 12800
        /\ fs[c].total_size = 104857600
        /\ BLen(files[fs[c].result].data) = 104857600

\* A body one byte over the maximum, announced as within it, was refused on
\* its last chunk.
C8_WitnessOver ==
    \E c \in callers :
        /\ FetchDone(c)
        /\ fs[c].body = BODY_OVER
        /\ fs[c].resp.content_length = CL_MAX
        /\ fs[c].total_size = 104857601
        /\ fs[c].err = Err("TooLarge", "stream")

\* A body one byte over the maximum that came without a Content-Length was
\* refused while it was read.
C8_WitnessNoHeader ==
    \E c \in callers :
        /\ FetchDone(c)
        /\ fs[c].body = BODY_OVER
        /\ fs[c].resp.content_length = NoHdr
        /\ fs[c].nread = 12801
        /\ fs[c].err = Err("TooLarge", "stream")

\* C9: a fetch fails with TooManyRedirects only when the servers' chain has
\* more than MAX_REDIRECTS redirects; a chain of at most MAX_REDIRECTS
\* redirects is followed to its end.
C9_TenRedirectsFollowed ==
    \A c \in callers :
        (FetchDone(c) /\ fs[c].err.kind = "TooManyRedirects") =>
            fs[c].chain > MAX_REDIRECTS

\* What the loop does instead: it sends at most MAX_REDIRECTS requests, so it
\* gives up on the MAX_REDIRECTS-th redirect response and a fetch that
\* returns has followed at most MAX_REDIRECTS - 1 redirects.
C9_TenRequestsAtMost ==
    \A c \in callers :
        Fetching(c) =>
            /\ fs[c].iter <= MAX_REDIRECTS
            /\ fs[c].nredir <= fs[c].iter
            /\ fs[c].err.kind = "TooManyRedirects" =>
                  (fs[c].nredir = MAX_REDIRECTS /\ fs[c].iter = MAX_REDIRECTS)
            /\ fs[c].nredir = MAX_REDIRECTS =>
                  /\ fs[c].pc = "done"
                  /\ fs[c].err.kind \in {"TooManyRedirects", "BlockedURL", "ValueError"}
            /\ (fs[c].pc = "done" /\ fs[c].err = NoErr) =>
                  fs[c].nredir <= MAX_REDIRECTS - 1

\* A chain of exactly MAX_REDIRECTS redirects, each to a public URL, ended
\* the fetch with TooManyRedirects.
C9_WitnessTenRedirects ==
    \E c \in callers :
        /\ FetchDone(c)
        /\ fs[c].chain = MAX_REDIRECTS
        /\ fs[c].nredir = MAX_REDIRECTS
        /\ fs[c].err.kind = "TooManyRedirects"

\* C10: once a 2xx response's body has been read within the size limit, the
\* fetch goes on to write it if and only if the Content-Type header contains
\* "pdf" in any case or the body starts with %PDF; otherwise it fails with
\* NotAPDF and no file is written or registered.
C10_AcceptedIffPdf ==
    \A c \in callers :
        (/\ Fetching(c)
         /\ fs[c].resp.status \in 200..299
         /\ fs[c].nbody = 1
         /\ fs[c].pc \in {"open", "write", "register", "done"}
         /\ fs[c].err.kind \notin {"TooLarge", "TransportError"}) =>
            /\ (fs[c].err.kind # "NotAPDF") <=>
                  \/ fs[c].resp.content_type \in {CT_PDF, CT_UPPER}
                  \/ fs[c].body \in {BODY_PDF, BODY_MAX}
            /\ fs[c].err.kind = "NotAPDF" =>
                  /\ fs[c].pc = "done"
                  /\ fs[c].result = NoPath
                  /\ CacheUntouched(c)

\* A body without the magic bytes was accepted on a mixed-case PDF content
\* type and written.
C10_Witness ==
    \E c \in callers :
        /\ FetchDone(c)
        /\ fs[c].err = NoErr
        /\ fs[c].body = BODY_HTML
        /\ fs[c].resp.content_type = CT_UPPER
        /\ files[fs[c].result].data = <<Run("<", 1), Run("h", 1)>>

\* A body of one chunk that starts with the magic bytes was accepted
\* without a Content-Type header.
C10_WitnessMagic ==
    \E c \in callers :
        /\ FetchDone(c)
        /\ fs[c].err = NoErr
        /\ fs[c].body = BODY_PDF
        /\ fs[c].nread = 1
        /\ fs[c].resp.content_type = NoHdr

\* C11: a fetch that succeeds after following at least one redirect has
\* written one file, the one named after the URL the caller asked for (not
\* after the redirect target), and has registered it under that URL alone; a
\* get_local_path of the URL that follows returns it, and a fetch of the URL
\* that follows returns it without sending any request.
C11_RedirectedUnderOriginalUrl ==
    \A c \in callers :
        /\ (FetchDone(c) /\ fs[c].err = NoErr /\ fs[c].nredir >= 1) =>
              /\ fs[c].result = [dir |-> "cache_dir",
                                 file |-> DigestOf(fs[c].url) \o NameOf(fs[c].url)]
              /\ files[fs[c].result].exists
              /\ \A p \in Paths \ {fs[c].result} : files[p] = fs[c].files0[p]
              /\ url_to_path[fs[c].url] = fs[c].result
              /\ \A u \in URLs \ {fs[c].url} : url_to_path[u] = fs[c].index0[u]
        /\ (fs[c].pc = "done" /\ fs[c].op = "get_local_path"
                              /\ last.url = fs[c].url /\ last.nredir >= 1) =>
              fs[c].result = last.path
        /\ (FetchDone(c) /\ ~fs[c].force_refresh
                         /\ last.url = fs[c].url /\ last.nredir >= 1) =>
              /\ fs[c].err = NoErr
              /\ fs[c].result = last.path
              /\ fs[c].requested = {}
              /\ fs[c].iter = 0
              /\ fs[c].nbody = 0

\* After a fetch of old.pdf that was redirected once, a second fetch of it
\* has returned the same path from the cache.
C11_Witness ==
    \E c \in callers :
        /\ FetchDone(c)
        /\ ~fs[c].force_refresh
        /\ fs[c].url = U_OLD
        /\ last.url = U_OLD
        /\ last.nredir = 1
        /\ fs[c].result = CachePath(U_OLD)
        /\ fs[c].iter = 0

\* A fetch of old.pdf has succeeded after one redirect to new.pdf.
C11_WitnessRedirected ==
    \E c \in callers :
        /\ FetchDone(c)
        /\ fs[c].err = NoErr
        /\ fs[c].url = U_OLD
        /\ fs[c].current_url = U_NEW
        /\ fs[c].nredir = 1
        /\ fs[c].requested = {U_OLD, U_NEW}
        /\ ~files[CachePath(U_NEW)].exists
        /\ url_to_path[U_NEW] = NoPath

\* The cache file of each URL callers fetch, written out.
PathOf(url) ==
    [dir |-> "cache_dir", file |-> DigestOf(url) \o NameOf(url)]

\* C12: whatever fetches were made, with or without force_refresh, the index
\* maps a URL to no other path than its one cache file, the directory holds
\* no more than one file per URL, a fetch adds no file but the one of its
\* URL, and after a successful fetch with force_refresh that file holds the
\* body this fetch downloaded.
C12_OneFilePerUrl ==
    /\ \A u \in URLs :
          /\ url_to_path[u] # NoPath => (u \in {U_OLD, U_API} /\ url_to_path[u] = PathOf(u))
          /\ Cardinality({p \in Paths : files[p].exists
                                         /\ SubSeq(p.file, 1, 16) = DigestOf(u)}) <= 1
    /\ \A p \in Paths : files[p].exists => p \in {PathOf(U_OLD), PathOf(U_API)}
    /\ \A c \in callers :
          /\ Fetching(c) =>
                \A p \in Paths :
                    (files[p].exists /\ ~fs[c].files0[p].exists) => p = PathOf(fs[c].url)
          /\ (FetchDone(c) /\ fs[c].err = NoErr /\ fs[c].force_refresh) =>
                /\ fs[c].nbody = 1
                /\ fs[c].result = PathOf(fs[c].url)
                /\ url_to_path[fs[c].url] = fs[c].result
                /\ files[fs[c].result] = [exists |-> TRUE, data |-> BodyBytes(fs[c].body)]

\* A fetch with force_refresh has downloaded a body of four bytes over a
\* cached file and returned; the file holds the first two.
C12_WitnessShortWrite ==
    \E c \in callers :
        /\ FetchDone(c)
        /\ fs[c].err = NoErr
        /\ fs[c].force_refresh
        /\ fs[c].cached0
        /\ fs[c].body = BODY_PDF
        /\ files[fs[c].result].data = <<Run("%", 1), Run("P", 1)>>

\* A fetch with force_refresh has replaced a cached body of four bytes by a
\* shorter one of two bytes.
C12_Witness ==
    \E c \in callers :
        /\ FetchDone(c)
        /\ fs[c].err = NoErr
        /\ fs[c].force_refresh
        /\ fs[c].cached0
        /\ fs[c].files0[fs[c].result].data = <<Run("%", 1), Run("P", 1), Run("D", 1), Run("F", 1)>>
        /\ files[fs[c].result].data = <<Run("<", 1), Run("h", 1)>>

LookupDone(c) == fs[c].op = "get_local_path" /\ fs[c].pc = "done"

\* The index entry of the call's URL was stale when the call began: it named
\* a file that was no longer there.
StaleAtCall(c) ==
    /\ fs[c].index0[fs[c].url] # NoPath
    /\ ~fs[c].files0[fs[c].index0[fs[c].url]].exists

\* C13: get_local_path raises nothing and returns a path only when a file is
\* at that path at the time of the call; when the index entry of the URL
\* names a file that is gone, the call goes on to the disk probe, whose path
\* has no file either, and returns None; a fetch without force_refresh that
\* meets such an entry does not return it but downloads.
C13_LookupOnlyExistingFile ==
    \A c \in callers :
        /\ LookupDone(c) =>
              /\ fs[c].err = NoErr
              /\ fs[c].result # NoPath => fs[c].files0[fs[c].result].exists
              /\ fs[c].result # NoPath => files[fs[c].result].exists
              /\ StaleAtCall(c) =>
                    /\ fs[c].result = NoPath
                    /\ ~fs[c].cached0
                    /\ CacheUntouched(c)
        /\ (Fetching(c) /\ StaleAtCall(c) /\ ~fs[c].force_refresh
                        /\ fs[c].url \in {U_OLD, U_API}) =>
              /\ ~fs[c].cached0
              /\ fs[c].pc = "done" =>
                    (fs[c].iter >= 1 /\ (fs[c].err = NoErr => fs[c].nbody = 1))

\* A get_local_path of a URL whose cached file had been removed from outside,
\* the index still naming it, has returned None.
C13_Witness ==
    \E c \in callers :
        /\ LookupDone(c)
        /\ fs[c].url = U_OLD
        /\ fs[c].index0[U_OLD] = PathOf(U_OLD)
        /\ ~files[PathOf(U_OLD)].exists
        /\ fs[c].result = NoPath
        /\ fs[c].err = NoErr

\* C14: get_local_path returns the index entry of the URL when its file
\* exists; otherwise, when a file is at cache_dir/filename_for(url), it
\* returns that path and the index maps the URL to it afterwards, all other
\* entries unchanged; otherwise it returns None and leaves the index as it
\* was.  It never changes a file.  A fetch without force_refresh that is
\* served by the probe leaves the URL registered too.
C14_LookupIndexThenDisk ==
    \A c \in callers :
        /\ LookupDone(c) =>
              LET u   == fs[c].url
                  old == fs[c].index0
                  dir == fs[c].files0
              IN  /\ files = dir
                  /\ IF old[u] # NoPath /\ dir[old[u]].exists
                     THEN /\ fs[c].result = old[u]
                          /\ url_to_path = old
                     ELSE IF u \in {U_OLD, U_API} /\ dir[PathOf(u)].exists
                     THEN /\ fs[c].result = PathOf(u)
                          /\ url_to_path[u] = PathOf(u)
                          /\ \A w \in URLs \ {u} : url_to_path[w] = old[w]
                     ELSE /\ fs[c].result = NoPath
                          /\ url_to_path = old
        /\ (FetchDone(c) /\ ~fs[c].force_refresh /\ fs[c].err = NoErr
                         /\ fs[c].iter = 0) =>
              /\ fs[c].files0[fs[c].result].exists
              /\ url_to_path[fs[c].url] = fs[c].result
              /\ files = fs[c].files0

\* A file put at the cache path of a URL from outside, the index not knowing
\* the URL, was found by get_local_path and entered in the index.
C14_Witness ==
    \E c \in callers :
        /\ LookupDone(c)
        /\ fs[c].url = U_API
        /\ fs[c].index0[U_API] = NoPath
        /\ fs[c].result = PathOf(U_API)
        /\ url_to_path[U_API] = PathOf(U_API)
        /\ files[PathOf(U_API)].data = PLANTED

\* A get_local_path of a URL that is neither in the index nor on disk has
\* returned None, the index holding another URL as before.
C14_WitnessMiss ==
    \E c \in callers :
        /\ LookupDone(c)
        /\ fs[c].url = U_DOC
        /\ fs[c].result = NoPath
        /\ url_to_path[U_OLD] = PathOf(U_OLD)
        /\ url_to_path[U_DOC] = NoPath

\* The rule of the guard each rejected URL is stopped by, written out.
StoppedByScheme == {U_FTP, U_FILE}

StoppedByNoHost == {U_NOHOST}

StoppedByLiteral == {U_LOCAL, U_LOOP, U_ZERO, U_V6LOOP}

\* C15: the guard applies its rules in order, the first three without the
\* resolver: a fetch of a URL with a scheme other than http and https ends
\* with BlockedURL(scheme), also when the URL has no hostname either; of a
\* URL without hostname with BlockedURL(no-host); of a URL whose hostname is
\* localhost, 127.0.0.1, ::1 or 0.0.0.0 with BlockedURL(localhost); getaddrinfo
\* was not called for that URL and no request was sent to it.  The same holds
\* of a redirect target: the resolver was called once for each URL that had
\* passed before, and not for the target.
C15_EarlyRulesWithoutDns ==
    \A c \in callers :
        Fetching(c) =>
            /\ fs[c].url \in StoppedByScheme =>
                  (fs[c].pc = "done" /\ fs[c].err = Err("BlockedURL", "scheme"))
            /\ fs[c].url \in StoppedByNoHost =>
                  (fs[c].pc = "done" /\ fs[c].err = Err("BlockedURL", "no-host"))
            /\ fs[c].url \in StoppedByLiteral =>
                  (fs[c].pc = "done" /\ fs[c].err = Err("BlockedURL", "localhost"))
            /\ fs[c].url \in StoppedByScheme \cup StoppedByNoHost \cup StoppedByLiteral =>
                  /\ fs[c].ndns = 0
                  /\ fs[c].requested = {}
                  /\ fs[c].iter = 0
            /\ (fs[c].rejected \in StoppedByScheme /\ fs[c].nredir >= 1) =>
                  /\ fs[c].pc = "done"
                  /\ fs[c].err = Err("BlockedURL", "scheme")
                  /\ fs[c].ndns = fs[c].nredir
                  /\ fs[c].iter = fs[c].nredir
                  /\ fs[c].rejected \notin fs[c].requested
            /\ fs[c].err.kind = "BlockedURL" =>
                  /\ fs[c].err.detail \in {"scheme", "no-host", "localhost"} =>
                        fs[c].ndns = fs[c].nredir
                  /\ fs[c].err.detail = "private" => fs[c].ndns = fs[c].nredir + 1

\* A fetch was redirected to an ftp URL and ended with BlockedURL(scheme), the
\* resolver having been called for the first URL only.
C15_Witness ==
    \E c \in callers :
        /\ FetchDone(c)
        /\ fs[c].url = U_OLD
        /\ fs[c].rejected = U_FTP
        /\ fs[c].err = Err("BlockedURL", "scheme")
        /\ fs[c].ndns = 1
        /\ fs[c].requested = {U_OLD}

\* A fetch of a URL whose hostname is ::1 ended with BlockedURL(localhost)
\* without a call of the resolver.
C15_WitnessLiteral ==
    \E c \in callers :
        /\ FetchDone(c)
        /\ fs[c].url = U_V6LOOP
        /\ fs[c].err = Err("BlockedURL", "localhost")
        /\ fs[c].ndns = 0

\* A fetch of a file: URL, which has no hostname either, ended on the scheme.
C15_WitnessOrder ==
    \E c \in callers :
        /\ FetchDone(c)
        /\ fs[c].url = U_FILE
        /\ fs[c].err = Err("BlockedURL", "scheme")

\* The hostnames that reach the resolver, by what it answers: a failure; at
\* least one private, loopback, link-local, reserved or multicast address;
\* public addresses only.
FailsToResolve == {U_NXDOM, U_BADNAME}

SomeAddressFlagged == {U_META, U_CORP, U_MIXED, U_MCAST, U_RSVD}

AllAddressesPublic == {U_OLD, U_NEW, U_API}

\* C16: a URL that reaches the resolved-address check is blocked when its
\* hostname does not resolve (unknown name, malformed name) and when one of
\* its addresses is private, loopback, link-local, reserved or multicast,
\* even next to a public one; it passes only when the name resolves and all
\* addresses are public.  This holds of the URL fetched and of every
\* redirect target; nothing is requested from a URL so blocked.
C16_ResolvedAddressFailsClosed ==
    \A c \in callers :
        Fetching(c) =>
            /\ fs[c].url \in FailsToResolve \cup SomeAddressFlagged =>
                  /\ fs[c].pc = "done"
                  /\ fs[c].err = Err("BlockedURL", "private")
                  /\ fs[c].rejected = fs[c].url
                  /\ fs[c].ndns = 1
                  /\ fs[c].requested = {}
                  /\ fs[c].validated = {}
            /\ fs[c].url \in AllAddressesPublic =>
                  /\ fs[c].url \in fs[c].validated
                  /\ fs[c].rejected # fs[c].url
            /\ fs[c].validated \subseteq AllAddressesPublic
            /\ fs[c].err = Err("BlockedURL", "private") <=>
                  fs[c].rejected \in FailsToResolve \cup SomeAddressFlagged
            /\ fs[c].rejected \in FailsToResolve \cup SomeAddressFlagged =>
                  /\ fs[c].pc = "done"
                  /\ fs[c].rejected \notin fs[c].requested
                  /\ fs[c].rejected \notin fs[c].validated

\* A fetch was redirected to a hostname that does not resolve and was
\* blocked, after its first URL, all addresses public, had passed.
C16_Witness ==
    \E c \in callers :
        /\ FetchDone(c)
        /\ fs[c].url = U_OLD
        /\ fs[c].validated = {U_OLD}
        /\ fs[c].rejected = U_NXDOM
        /\ fs[c].err = Err("BlockedURL", "private")
        /\ fs[c].ndns = 2

\* A fetch of a URL whose hostname is malformed was blocked.
C16_WitnessMalformed ==
    \E c \in callers :
        /\ FetchDone(c)
        /\ fs[c].url = U_BADNAME
        /\ fs[c].err = Err("BlockedURL", "private")

\* A fetch passed through a hostname with two addresses, both public.
C16_WitnessPublic ==
    \E c \in callers :
        /\ FetchDone(c)
        /\ fs[c].err = NoErr
        /\ U_NEW \in fs[c].requested

ClearDone(c) == fs[c].op = "clear_cache" /\ fs[c].pc = "done"

\* C17: clear_cache raises nothing, whether or not a deletion failed; the
\* count it returns is the number of files that were in the directory when
\* it began and are no longer, at most the number that were there; a file it
\* could not delete is unchanged; the index is empty afterwards.
C17_ClearBestEffort ==
    \A c \in callers :
        ClearDone(c) =>
            LET before == {p \in Paths : fs[c].files0[p].exists}
                after  == {p \in Paths : files[p].exists}
            IN  /\ fs[c].err = NoErr
                /\ after \subseteq before
                /\ fs[c].count = Cardinality(before \ after)
                /\ fs[c].count <= Cardinality(before)
                /\ \A p \in after : files[p] = fs[c].files0[p]
                /\ \A u \in URLs : url_to_path[u] = NoPath

\* Of two cached files clear_cache deleted one and failed on the other: it
\* returned 1 and emptied an index that knew both.
C17_Witness ==
    \E c \in callers :
        /\ ClearDone(c)
        /\ fs[c].files0[PathOf(U_OLD)].exists
        /\ fs[c].files0[PathOf(U_API)].exists
        /\ fs[c].index0[U_OLD] # NoPath
        /\ fs[c].index0[U_API] # NoPath
        /\ Cardinality({p \in Paths : files[p].exists}) = 1
        /\ fs[c].count = 1
        /\ url_to_path[U_OLD] = NoPath
        /\ url_to_path[U_API] = NoPath

StatsDone(c) == fs[c].op = "get_cache_stats" /\ fs[c].pc = "done"

\* The size in bytes of each content a cached file may have, written out.
SizeOfData(d) ==
    CASE d = <<>> -> 0
      [] d = <<Run("<", 1)>> -> 1
      [] d = <<Run("<", 1), Run("h", 1)>> -> 2
      [] d = <<Run("%", 1)>> -> 1
      [] d = <<Run("%", 1), Run("P", 1)>> -> 2
      [] d = <<Run("%", 1), Run("P", 1), Run("D", 1)>> -> 3
      [] d = <<Run("%", 1), Run("P", 1), Run("D", 1), Run("F", 1)>> -> 4
      [] d = <<Run("%", 1), Run("P", 1), Run("D", 1), Run("F", 1),
               Run("-", 1), Run("1", 1), Run(".", 1), Run("4", 1)>> -> 8
      [] d = <<Run("%", 1), Run("P", 1), Run("D", 1), Run("F", 1),
               Run("x", 104857596)>> -> 104857600

\* C18: in whatever state get_cache_stats is called, whatever the index
\* holds, the file count it returns is the number of files in the cache
\* directory and the byte total is the sum of their sizes, files put there
\* or removed from outside included; it changes neither files nor index.
C18_StatsFromDirectory ==
    \A c \in callers :
        StatsDone(c) =>
            /\ fs[c].err = NoErr
            /\ fs[c].stats.cached_files = Cardinality({p \in Paths : files[p].exists})
            /\ fs[c].stats.total_size_bytes =
                  SizeOfData(files[PathOf(U_OLD)].data) + SizeOfData(files[PathOf(U_API)].data)
            /\ fs[c].stats.total_size_bytes < 5243 => fs[c].stats.total_size_mb = 0
            /\ fs[c].stats.total_size_bytes = 104857600 => fs[c].stats.total_size_mb = 10000
            /\ CacheUntouched(c)

\* get_cache_stats has counted two files of 12 bytes together, one fetched
\* and one put there from outside, with an index that knows neither.
C18_Witness ==
    \E c \in callers :
        /\ StatsDone(c)
        /\ files[PathOf(U_API)].data = PLANTED
        /\ files[PathOf(U_OLD)].exists
        /\ \A u \in URLs : url_to_path[u] = NoPath
        /\ fs[c].stats.cached_files = 2
        /\ fs[c].stats.total_size_bytes = 12

\* get_cache_stats has found an empty directory, the index still naming a
\* file that was removed from outside.
C18_WitnessRemoved ==
    \E c \in callers :
        /\ StatsDone(c)
        /\ url_to_path[U_OLD] = PathOf(U_OLD)
        /\ fs[c].stats.cached_files = 0
        /\ fs[c].stats.total_size_bytes = 0

\* What follows the 16 hexadecimal digits in the cache file name of each URL,
\* written out.
SuffixOf(url) ==
    CASE url = U_OLD   -> <<"_", "o", "l", "d", ".", "p", "d", "f">>
      [] url = U_API   -> <<".", "p", "d", "f">>
      [] url = U_DOC   -> <<"_", "d", "o", "c", "u", "m", "e", "n", "t", ".", "p", "d", "f">>
      [] url = U_QUERY -> <<".", "p", "d", "f">>
      [] url = U_FRAG  -> <<".", "p", "d", "f">>
      [] url = U_ODD   -> <<"_", "m", "y", "2", "0", "d", "o", "c", "1", ".", "p", "d", "f">>
      [] url = U_LATIN -> <<"_", "A", "ñ", "²", "½", ".", "p", "d", "f">>

\* The cache file of a URL, written out.
FileOf(url) ==
    [dir |-> "cache_dir", file |-> DigestOf(url) \o SuffixOf(url)]

HexDigits == {"0", "1", "2", "3", "4", "5", "6", "7", "8", "9",
              "a", "b", "c", "d", "e", "f"}

\* The name is 16 hexadecimal digits followed by ".pdf", or by "_" and a
\* name that ends in ".pdf".
HasNameForm(name) ==
    /\ Len(name) >= 20
    /\ \A i \in 1..16 : name[i] \in HexDigits
    /\ SubSeq(name, Len(name) - 3, Len(name)) = <<".", "p", "d", "f">>
    /\ Len(name) > 20 => name[17] = "_"

\* C19: the file name a URL is cached under is the same whatever the index
\* and the directory hold and whichever fetcher instance, in whichever
\* process, computes it: 16 hexadecimal digits that belong to the URL,
\* followed by "_" and the basename of the URL's path without the characters
\* other than letters, digits, ".", "_" and "-" when the path ends in ".pdf",
\* and by ".pdf" otherwise (a path cut short by "?" or "#" included).  A
\* fetch stores the URL under that name; get_local_path finds a URL exactly
\* when a file is under that name and returns that name, which is the name
\* the last fetch of the URL returned, were it the fetch of an earlier
\* process; the index never maps the URL to another.
C19_FilenameOfUrlAlone ==
    /\ \A u \in NameURLs : url_to_path[u] \in {NoPath, FileOf(u)}
    /\ last.url # None => last.path = FileOf(last.url)
    /\ \A c \in callers :
          /\ (FetchDone(c) /\ fs[c].err = NoErr) =>
                 /\ fs[c].result = FileOf(fs[c].url)
                 /\ HasNameForm(fs[c].result.file)
          /\ LookupDone(c) =>
                 /\ fs[c].result \in {NoPath, FileOf(fs[c].url)}
                 /\ fs[c].result # NoPath => HasNameForm(fs[c].result.file)
                 /\ fs[c].result # NoPath <=>
                       \E p \in Paths : p = FileOf(fs[c].url) /\ fs[c].files0[p].exists
                 /\ (last.url = fs[c].url /\ fs[c].files0[last.path].exists) =>
                       fs[c].result = last.path

\* get_local_path has found the file of a URL whose basename holds "%", "("
\* and ")" under the name without them.
C19_Witness ==
    \E c \in callers :
        /\ LookupDone(c)
        /\ fs[c].url = U_ODD
        /\ fs[c].index0[U_ODD] = NoPath
        /\ fs[c].result.file =
              <<"7", "b", "c", "b", "4", "4", "a", "9", "a", "9", "3", "3", "b", "3", "4", "6",
                "_", "m", "y", "2", "0", "d", "o", "c", "1", ".", "p", "d", "f">>

\* get_local_path has found the file of the same URL again, this time from
\* the index and with other files in the directory.
C19_WitnessAgain ==
    \E c \in callers :
        /\ LookupDone(c)
        /\ fs[c].url = U_ODD
        /\ fs[c].index0[U_ODD] # NoPath
        /\ fs[c].files0[FileOf(U_FRAG)].exists
        /\ fs[c].result = FileOf(U_ODD)

\* get_local_path has found the file of a URL whose basename holds letters
\* and digits outside ASCII, which stay in the name, and a sign that does not.
C19_WitnessLatin ==
    \E c \in callers :
        /\ LookupDone(c)
        /\ fs[c].url = U_LATIN
        /\ SubSeq(fs[c].result.file, 17, Len(fs[c].result.file)) =
              <<"_", "A", "ñ", "²", "½", ".", "p", "d", "f">>

\* get_local_path of a new process, whose index was empty, has found the
\* file that a fetch of the process before it had downloaded, under the name
\* that fetch returned.
C19_WitnessRestart ==
    \E c \in callers :
        /\ LookupDone(c)
        /\ env.proc = 1
        /\ last.proc = 0
        /\ last.url = fs[c].url
        /\ last.nbody = 1
        /\ fs[c].index0 = EmptyIndex
        /\ fs[c].result = last.path

\* get_local_path has found nothing for a URL without ".pdf" at the end of
\* its path while the file of another such URL was there: the digits differ.
C19_WitnessOther ==
    \E c \in callers :
        /\ LookupDone(c)
        /\ fs[c].url = U_QUERY
        /\ fs[c].files0[FileOf(U_FRAG)].exists
        /\ fs[c].result = NoPath

\* Callers c and d have both fetched the same URL without force_refresh, both
\* missed the cache, both downloaded a body and both returned.
BothDownloaded(c, d) ==
    /\ c # d
    /\ FetchDone(c) /\ FetchDone(d)
    /\ fs[c].url = fs[d].url
    /\ ~fs[c].force_refresh /\ ~fs[d].force_refresh
    /\ ~fs[c].cached0 /\ ~fs[d].cached0
    /\ fs[c].nbody = 1 /\ fs[d].nbody = 1
    /\ fs[c].err = NoErr /\ fs[d].err = NoErr

\* C20: when two callers have fetched the same URL at once, both missing the
\* cache and both downloading, both have returned the same path, the index
\* maps the URL to it, and the file holds the whole body one of the two
\* downloaded, neither nothing nor a mix of the two.
C20_ConcurrentSameUrlWholeBody ==
    \A c, d \in callers :
        BothDownloaded(c, d) =>
            /\ fs[c].result = fs[d].result
            /\ url_to_path[fs[c].url] = fs[c].result
            /\ files[fs[c].result].exists
            /\ files[fs[c].result].data \in {BodyBytes(fs[c].body), BodyBytes(fs[d].body)}

\* What the code keeps of C20: the path and the index entry are the same for
\* both callers, and when both downloaded the same bytes the file holds the
\* first bytes of them, as many as os.write wrote.
C20_SameBytesSameFile ==
    \A c, d \in callers :
        BothDownloaded(c, d) =>
            /\ fs[c].result = fs[d].result
            /\ fs[c].result = PathOf(fs[c].url)
            /\ url_to_path[fs[c].url] = fs[c].result
            /\ files[fs[c].result].exists
            /\ BodyBytes(fs[c].body) = BodyBytes(fs[d].body) =>
                  files[fs[c].result].data =
                      BTake(BodyBytes(fs[c].body), BLen(files[fs[c].result].data))

\* Two callers have downloaded the same URL at once and returned, and the
\* file holds the two bytes of one body followed by the last two of the
\* other.
C20_WitnessMix ==
    \E c, d \in callers :
        /\ BothDownloaded(c, d)
        /\ fs[c].body = BODY_PDF
        /\ fs[d].body = BODY_HTML
        /\ files[fs[c].result].data = <<Run("<", 1), Run("h", 1), Run("D", 1), Run("F", 1)>>

\* C21: two callers at once on different URLs.  A fetch that has returned a
\* path, downloaded or found, and a lookup that has returned one leave their
\* URL in the index under its own cache file, whatever the other caller
\* wrote to the index meanwhile; so when two fetches of different URLs have
\* both returned, both URLs are in the index, each under its own path; and
\* no step of a caller takes another URL's entry out of the index.
C21_IndexUpdatesNotLost ==
    /\ \A c \in callers :
          (fs[c].pc = "done" /\ fs[c].op \in {"fetch", "get_local_path"}
                             /\ fs[c].result # NoPath) =>
             /\ fs[c].result = PathOf(fs[c].url)
             /\ url_to_path[fs[c].url] = PathOf(fs[c].url)
    /\ \A c, d \in callers :
          (FetchDone(c) /\ FetchDone(d) /\ fs[c].err = NoErr /\ fs[d].err = NoErr
                        /\ fs[c].url # fs[d].url) =>
             /\ url_to_path[fs[c].url] = PathOf(fs[c].url)
             /\ url_to_path[fs[d].url] = PathOf(fs[d].url)
             /\ url_to_path[fs[c].url] # url_to_path[fs[d].url]
    /\ \A u \in URLs : url_to_path[u] # NoPath => u \in IndexURLs /\ url_to_path[u] = PathOf(u)

\* Two fetches of different URLs, both begun on an empty index, have both
\* downloaded and returned.
C21_Witness ==
    /\ FetchDone(1) /\ FetchDone(2)
    /\ fs[1].err = NoErr /\ fs[2].err = NoErr
    /\ fs[1].url = U_OLD /\ fs[2].url = U_API
    /\ fs[1].nbody = 1 /\ fs[2].nbody = 1
    /\ fs[1].index0 = EmptyIndex /\ fs[2].index0 = EmptyIndex

\* A lookup that began on an empty index has backfilled its URL while a fetch
\* of the other URL, begun on an empty index too, registered its own.
C21_WitnessBackfill ==
    /\ LookupDone(1) /\ fs[1].url = U_OLD /\ fs[1].result # NoPath
    /\ fs[1].index0 = EmptyIndex
    /\ FetchDone(2) /\ fs[2].url = U_API /\ fs[2].err = NoErr /\ fs[2].nbody = 1
    /\ fs[2].index0 = EmptyIndex

\* C22: under every umask, the cache directory has mode 0o700 in every state
\* from construction on, every file that a fetch created has mode 0o600 for
\* as long as it exists, and no step gives the directory or a file that
\* stays in place a permission bit it did not have.
C22_OwnerOnlyPermissions ==
    /\ [](/\ perm.dir = {"ur", "uw", "ux"}
          /\ \A p \in perm.made : files[p].exists /\ perm.file[p] = {"ur", "uw"})
    /\ [][/\ perm'.dir \subseteq perm.dir
          /\ \A p \in Paths :
                (files[p].exists /\ files'[p].exists) => perm'.file[p] \subseteq perm.file[p]]_vars

\* Under umask 0, a fetch has downloaded a body into a file it created, and
\* the file has mode 0o600.
C22_Witness ==
    \E c \in callers :
        /\ perm.umask = {}
        /\ FetchDone(c) /\ fs[c].err = NoErr /\ fs[c].nbody = 1
        /\ ~fs[c].files0[fs[c].result].exists
        /\ fs[c].result \in perm.made
        /\ perm.file[fs[c].result] = {"ur", "uw"}
        /\ perm.dir = {"ur", "uw", "ux"}

\* Under umask 0o022, a fetch has downloaded a body into a file that was put
\* there from outside: the file keeps the mode 0o644 it had.
C22_WitnessKept ==
    \E c \in callers :
        /\ perm.umask = {"gw", "ow"}
        /\ FetchDone(c) /\ fs[c].err = NoErr /\ fs[c].nbody = 1
        /\ fs[c].files0[fs[c].result].exists
        /\ fs[c].result \notin perm.made
        /\ perm.file[fs[c].result] = {"ur", "uw", "gr", "or"}

\* C23: a get_metadata and a get_page_text return the record stored for the
\* identity (and page) when less than the TTL has passed since it was saved,
\* and absent when the TTL has passed, although the record is still stored;
\* absent too when nothing was saved.
C23_NoHitAfterTtl ==
    /\ docs.out.op = "get_metadata" =>
          LET m == docs.meta[docs.out.identity]
          IN  docs.out.meta = IF m.has /\ docs.now < m.created + 1 THEN m ELSE NoMeta
    /\ docs.out.op = "get_page_text" =>
          LET t == docs.pages[docs.out.identity][docs.out.page]
          IN  docs.out.text = IF t.has /\ docs.now < t.created + 1 THEN t ELSE NoText
    /\ docs.ttl = 1

\* A get_metadata an hour after the save returns absent while the record is
\* still stored.
C23_Witness ==
    /\ docs.out.op = "get_metadata"
    /\ docs.meta[docs.out.identity].has
    /\ docs.meta[docs.out.identity].created = 0
    /\ docs.now = 1
    /\ docs.out.meta = NoMeta

\* A get_page_text in the hour of the save returns the text saved, and the
\* text saved last.
C23_WitnessHit ==
    /\ docs.out.op = "get_page_text"
    /\ docs.now = 1
    /\ docs.out.text = [has |-> TRUE, text |-> "Page 1 content, revised", created |-> 1]

\* C24: the keys of the mapping a get_pages_text returns are the indices
\* asked for whose text is stored and younger than the TTL, no other, and
\* each is mapped to the text stored for it.
C24_PagesTextPartialHit ==
    docs.out.op = "get_pages_text" =>
        LET id == docs.out.identity
            hits == {i \in docs.out.indices :
                        /\ docs.pages[id][i].has
                        /\ docs.now < docs.pages[id][i].created + 1}
        IN  /\ DOMAIN docs.out.texts = hits
            /\ \A i \in hits : docs.out.texts[i] = docs.pages[id][i].text

\* Asked for pages 0, 1 and 2 with 0 and 1 saved, the mapping has keys 0 and 1.
C24_Witness ==
    /\ docs.out.op = "get_pages_text"
    /\ docs.out.indices = {0, 1, 2}
    /\ DOMAIN docs.out.texts = {0, 1}
    /\ docs.out.texts[0] = "Page 1 content, revised"
    /\ docs.out.texts[1] = "Page 1 content"

\* Asked for pages 0 and 1, both stored, page 0 expired: the mapping has key 1.
C24_WitnessExpired ==
    /\ docs.out.op = "get_pages_text"
    /\ docs.out.indices = {0, 1}
    /\ docs.pages[docs.out.identity][0].has
    /\ docs.pages[docs.out.identity][0].created = 0
    /\ docs.now = 1
    /\ DOMAIN docs.out.texts = {1}

\* C25: a step other than clear_all changes the stored metadata or the stored
\* page texts, never both, so a save of one makes no hit of the other; stats
\* reports the number of identities with stored metadata and the number of
\* stored page texts; after clear_all nothing is stored.
C25_MetadataAndPagesApart ==
    /\ [](/\ docs.out.op = "stats" =>
                /\ docs.out.stats.total_files
                      = Cardinality({id \in Identities : docs.meta[id].has})
                /\ docs.out.stats.total_pages
                      = Cardinality({x \in Identities \X PageIndices :
                                        docs.pages[x[1]][x[2]].has})
          /\ docs.out.op = "clear_all" =>
                /\ \A id \in Identities : docs.meta[id] = NoMeta
                /\ \A id \in Identities, i \in PageIndices : docs.pages[id][i] = NoText
          /\ docs.out.op = "get_metadata" =>
                (docs.out.meta.has => docs.meta[docs.out.identity].has)
          /\ docs.out.op = "get_page_text" =>
                (docs.out.text.has => docs.pages[docs.out.identity][docs.out.page].has))
    /\ [][docs'.out.op # "clear_all" =>
             (docs'.meta = docs.meta \/ docs'.pages = docs.pages)]_vars

\* With metadata of two documents and one page text stored, stats reports two
\* files and one page.
C25_Witness ==
    /\ docs.out.op = "stats"
    /\ docs.out.stats = [total_files |-> 2, total_pages |-> 1]
    /\ docs.meta["/docs/a.pdf"].has
    /\ docs.pages["/docs/a.pdf"][0].has

\* A clear_all has emptied a cache that held metadata and page text.
C25_WitnessCleared ==
    /\ docs.out.op = "clear_all"
    /\ docs.out.removed = [total_files |-> 1, total_pages |-> 2]

\* A document has page text stored and no metadata, and get_metadata for it
\* returned absent.
C25_WitnessPagesOnly ==
    /\ docs.out.op = "get_metadata"
    /\ docs.out.identity = "/docs/a.pdf"
    /\ docs.pages["/docs/a.pdf"][0].has
    /\ ~docs.meta["/docs/a.pdf"].has
    /\ docs.out.meta = NoMeta

\* C26: a fetch of a URL the guard rejects ends with BlockedURL, returns no
\* path, sends no request and leaves the index as it was, with or without
\* force_refresh, also when a file of that URL is in the cache directory and
\* when the index has an entry for it; and every fetch that returns a path
\* is a fetch of a URL that passes the guard.
C26_GuardBeforeCache ==
    \A c \in callers :
        /\ (FetchDone(c) /\ fs[c].url \in BlockedURLs) =>
              /\ fs[c].err.kind = "BlockedURL"
              /\ fs[c].rejected = fs[c].url
              /\ fs[c].result = NoPath
              /\ fs[c].requested = {}
              /\ url_to_path = fs[c].index0
        /\ (FetchDone(c) /\ fs[c].result # NoPath) =>
              /\ fs[c].url \in PublicURLs
              /\ fs[c].url \in fs[c].validated

\* A fetch without force_refresh of a URL that resolves to a private address
\* was rejected while the index had an entry for the URL and the file existed.
C26_Witness ==
    \E c \in callers :
        /\ FetchDone(c)
        /\ fs[c].url = U_CORP
        /\ ~fs[c].force_refresh
        /\ fs[c].cached0
        /\ url_to_path[U_CORP] # NoPath
        /\ files[url_to_path[U_CORP]].exists
        /\ fs[c].err.kind = "BlockedURL"
        /\ fs[c].result = NoPath

\* A fetch without force_refresh of a localhost URL was rejected while its
\* file was in the directory and not in the index.
C26_WitnessOnDisk ==
    \E c \in callers :
        /\ FetchDone(c)
        /\ fs[c].url = U_LOCAL
        /\ ~fs[c].force_refresh
        /\ fs[c].cached0
        /\ url_to_path[U_LOCAL] = NoPath
        /\ \E p \in Paths : SubSeq(p.file, 1, 16) = DigestOf(U_LOCAL) /\ files[p].exists
        /\ fs[c].err.kind = "BlockedURL"

\* C27: while a fetch is between requests, all its responses so far having
\* been redirects, it has read no chunk of any body and holds no byte; the
\* body of at most one response is iterated, that of the response to the
\* last request, which was no redirect; a fetch that ends on a redirect
\* response has read nothing; and the file of a fetch that downloaded holds
\* bytes of that one response's body and no others: the body from its first
\* byte on, as far as the write got.
C27_NoBodyFromRedirect ==
    \A c \in callers :
        Fetching(c) =>
            /\ fs[c].nbody <= 1
            /\ fs[c].iter >= fs[c].nredir
            /\ fs[c].pc \in {"request", "response"} =>
                  /\ fs[c].iter = fs[c].nredir + (IF fs[c].pc = "response" THEN 1 ELSE 0)
                  /\ fs[c].nread = 0 /\ fs[c].nbody = 0
                  /\ fs[c].chunks = <<>> /\ fs[c].total_size = 0
            /\ fs[c].nread > 0 =>
                  /\ fs[c].nbody = 1
                  /\ fs[c].iter = fs[c].nredir + 1
                  /\ fs[c].nread <= ChunksOf(fs[c].body)
            /\ (fs[c].pc = "done" /\ fs[c].iter = fs[c].nredir) =>
                  fs[c].nread = 0 /\ fs[c].content = <<>>
            /\ (fs[c].pc = "done" /\ fs[c].err = NoErr /\ fs[c].nbody = 1) =>
                  /\ fs[c].nread = ChunksOf(fs[c].body)
                  /\ fs[c].content = BodyBytes(fs[c].body)
                  /\ files[fs[c].result].data =
                        BTake(BodyBytes(fs[c].body), BLen(files[fs[c].result].data))

\* A fetch that followed two redirects has downloaded: one body, read in one
\* chunk, is in the file.
C27_Witness ==
    \E c \in callers :
        /\ FetchDone(c) /\ fs[c].err = NoErr
        /\ fs[c].nredir = 2 /\ fs[c].iter = 3
        /\ fs[c].nbody = 1 /\ fs[c].nread = 1
        /\ files[fs[c].result].data = <<Run("%", 1), Run("P", 1), Run("D", 1), Run("F", 1)>>

\* A fetch was stopped at its second redirect, with nothing read.
C27_WitnessStopped ==
    \E c \in callers :
        /\ FetchDone(c) /\ fs[c].err.kind = "BlockedURL"
        /\ fs[c].nredir = 2 /\ fs[c].iter = 2
        /\ fs[c].nread = 0 /\ fs[c].nbody = 0

\* C28: the guard is called once when the fetch begins and once more for each
\* redirect response that names a target, before the next request: between
\* requests the fetch has made one guard call more than requests, on the URL
\* it requests next; a fetch that downloaded after k redirects has made k + 1
\* guard calls and k + 1 requests; a fetch answered from the cache has made
\* one guard call and no request.
C28_OneGuardCallPerHop ==
    \A c \in callers :
        Fetching(c) =>
            /\ fs[c].nguard >= 1
            /\ fs[c].pc = "response" =>
                  /\ fs[c].nguard = fs[c].iter
                  /\ fs[c].current_url \in fs[c].requested
            /\ fs[c].pc = "request" =>
                  /\ fs[c].nguard = fs[c].iter + 1
                  /\ fs[c].nredir = fs[c].iter
                  /\ fs[c].current_url \in fs[c].validated
            /\ (fs[c].pc = "done" /\ fs[c].err = NoErr /\ fs[c].nbody = 1) =>
                  /\ fs[c].nguard = fs[c].nredir + 1
                  /\ fs[c].iter = fs[c].nredir + 1
                  /\ fs[c].requested \subseteq fs[c].validated
                  /\ fs[c].current_url \in fs[c].requested
            /\ (fs[c].pc = "done" /\ fs[c].err = NoErr /\ fs[c].nbody = 0) =>
                  /\ fs[c].cached0 /\ ~fs[c].force_refresh
                  /\ fs[c].nguard = 1
                  /\ fs[c].iter = 0
                  /\ fs[c].requested = {}
            /\ (fs[c].pc = "done" /\ fs[c].err.kind = "BlockedURL") =>
                  fs[c].nguard = fs[c].iter + 1

\* A fetch has downloaded after two redirects: three guard calls, three
\* requests.
C28_Witness ==
    \E c \in callers :
        /\ FetchDone(c) /\ fs[c].err = NoErr /\ fs[c].nbody = 1
        /\ fs[c].nredir = 2
        /\ fs[c].nguard = 3
        /\ fs[c].iter = 3

\* A fetch was answered from the cache: one guard call, no request.
C28_WitnessCached ==
    \E c \in callers :
        /\ FetchDone(c) /\ fs[c].err = NoErr /\ fs[c].nbody = 0
        /\ fs[c].cached0
        /\ fs[c].nguard = 1
        /\ fs[c].iter = 0

\* The steps a fetch in state `f` has left at most: the steps of the cache
\* lookup, two for each request left up to the cap, then the chunks left of
\* the body (12801 at most), then open, write, register.
Rank(f) ==
    CASE f.pc = "index"    -> 12834
      [] f.pc = "entry"    -> 12833
      [] f.pc = "exists"   -> 12832
      [] f.pc = "probe"    -> 12831
      [] f.pc = "backfill" -> 12830
      [] f.pc = "request"  -> 12809 + 2 * (10 - f.iter)
      [] f.pc = "response" -> 12810 + 2 * (10 - f.iter)
      [] f.pc = "stream"   -> 4 + (BLen(f.stream) + 8191) \div 8192
      [] f.pc = "open"     -> 3
      [] f.pc = "write"    -> 2
      [] f.pc = "register" -> 1
      [] OTHER             -> 0

\* A step of the fetch of caller c can be taken.
CanStep(c) ==
    ENABLED (\/ LookupStep(c) \/ HopRequest(c)
             \/ HopTransportError(c) \/ HopRedirect(c) \/ HopFinal(c)
             \/ StreamChunk(c) \/ StreamTransportError(c) \/ StreamEnd(c)
             \/ Persist(c) \/ Register(c))

\* C29: a fetch sends at most 10 requests; while it has not ended a step of
\* it can always be taken, and every step of it lowers the number of steps
\* it has left, so it ends; a step that raises an error ends it at once, and
\* a fetch that has ended does nothing more (no request is made again); it
\* ends with a path and no error, or with an error and no path.
C29_FetchEndsNoRetry ==
    /\ [](\A c \in callers :
            Fetching(c) =>
               /\ fs[c].iter <= 10
               /\ Cardinality(fs[c].requested) <= fs[c].iter
               /\ Rank(fs[c]) >= 0
               /\ fs[c].pc # "done" => (fs[c].err = NoErr /\ CanStep(c))
               /\ fs[c].pc = "done" =>
                     \/ fs[c].err = NoErr /\ fs[c].result # NoPath
                     \/ /\ fs[c].result = NoPath
                        /\ fs[c].err.kind \in {"BlockedURL", "TransportError", "TooLarge",
                                                "NotAPDF", "TooManyRedirects",
                                                "ValueError", "OSError"})
    /\ [][\A c \in callers :
            (Fetching(c) /\ fs'[c] # fs[c]) =>
               IF fs[c].pc = "done"
               THEN fs'[c] = IdleRec
               ELSE /\ Rank(fs'[c]) < Rank(fs[c])
                    /\ fs'[c].iter \in {fs[c].iter, fs[c].iter + 1}
                    /\ fs'[c].err # NoErr => fs'[c].pc = "done"]_vars

\* A fetch has sent its tenth request and been answered by one more redirect:
\* it ended with TooManyRedirects.
C29_Witness ==
    \E c \in callers :
        /\ FetchDone(c)
        /\ fs[c].iter = 10
        /\ fs[c].err.kind = "TooManyRedirects"
        /\ fs[c].result = NoPath

\* A fetch ended on a transport error of its third request, with three
\* requests sent.
C29_WitnessTransport ==
    \E c \in callers :
        /\ FetchDone(c)
        /\ fs[c].err = [kind |-> "TransportError", detail |-> "connect"]
        /\ fs[c].iter = 3
        /\ fs[c].nredir = 2

\* The bodies of more than MAX_DOWNLOAD_SIZE bytes, the bodies that do not
\* start with the PDF magic bytes and the content types that name PDF.
OverBodies == {BODY_OVER, BODY_JUNK}

NonPdfBodies == {BODY_HTML, BODY_JUNK}

PdfTypes == {CT_PDF, CT_UPPER}

\* The error the first failing check of a non-redirect response gives, in the
\* order status, declared length, streamed size, content type ("" when
\* every check passes).
FirstFailingCheck(f) ==
    IF f.resp.status \notin 200..299 THEN "TransportError"
    ELSE IF f.resp.content_length \in OverLengths THEN "TooLarge"
    ELSE IF f.body \in OverBodies THEN "TooLarge"
    ELSE IF f.body \in NonPdfBodies /\ f.resp.content_type \notin PdfTypes
    THEN "NotAPDF"
    ELSE ""

\* The fetch of caller c got a non-redirect response and ended on the
\* checks of it: not on a failure of the transport while the body was read
\* nor on a failure of the write.
EndedOnChecks(c) ==
    /\ FetchDone(c)
    /\ fs[c].resp.status # 0
    /\ fs[c].err # [kind |-> "TransportError", detail |-> "read"]
    /\ fs[c].err.kind # "OSError"

\* C30: a fetch that ended on the checks of a non-redirect response ended
\* with the error of the first check that fails, in the order status
\* (TransportError), declared Content-Length (TooLarge), streamed size
\* (TooLarge), content type or magic bytes (NotAPDF), and without error when
\* none fails; a check that fails before the body loop leaves the body
\* unread, and a body over the maximum is never joined nor looked at.
C30_FirstFailingCheckDecides ==
    \A c \in callers :
        EndedOnChecks(c) =>
            /\ fs[c].err.kind = FirstFailingCheck(fs[c])
            /\ fs[c].err.kind = "TransportError" => fs[c].nread = 0
            /\ fs[c].resp.content_length \in OverLengths => fs[c].nread = 0
            /\ fs[c].err.kind = "TooLarge" => fs[c].content = <<>>

\* A 404 response that announced more than the maximum ended with the
\* TransportError of its status.
C30_WitnessStatusFirst ==
    \E c \in callers :
        /\ EndedOnChecks(c)
        /\ fs[c].resp.status = 404
        /\ fs[c].resp.content_length = CL_OVER
        /\ fs[c].err.kind = "TransportError"

\* A body over the maximum that is no PDF ended with TooLarge on its last
\* chunk.
C30_WitnessSizeBeforeType ==
    \E c \in callers :
        /\ EndedOnChecks(c)
        /\ fs[c].body = BODY_JUNK
        /\ fs[c].nread = 12801
        /\ fs[c].err = [kind |-> "TooLarge", detail |-> "stream"]

\* A body within the maximum that is no PDF, under a content type that
\* names none, ended with NotAPDF.
C30_WitnessTypeLast ==
    \E c \in callers :
        /\ EndedOnChecks(c)
        /\ fs[c].resp.status = 200
        /\ fs[c].resp.content_length = NoHdr
        /\ fs[c].body = BODY_HTML
        /\ fs[c].err.kind = "NotAPDF"

\* The addresses the guard rejects.
BlockedAddrs ==
    {"127.0.0.1", "10.0.0.1", "192.168.1.1", "169.254.169.254", "224.0.0.1",
     "240.0.0.1", "0.0.0.0", "::1"}

\* C31 as stated: every address the transport of a fetch resolved a host to,
\* to connect to it, is one the guard had inspected for that host in this
\* fetch, and none is an address the guard rejects, also when the answer of
\* the name servers changes between the guard's lookup and the connection.
C31_ConnectsWhereGuardLooked ==
    \A c \in callers :
        Fetching(c) =>
            /\ fs[c].connect \subseteq fs[c].inspected
            /\ \A p \in fs[c].connect : p[2] \notin BlockedAddrs

\* What the code guarantees: the guard has passed the URL of every request,
\* on the answer the name servers gave to the guard; while that answer stays
\* the transport connects where the guard looked.
C31_GuardPassedOnItsOwnAnswer ==
    /\ \A c \in callers :
          Fetching(c) =>
             /\ fs[c].requested \subseteq fs[c].validated
             /\ \A p \in fs[c].inspected \cap fs[c].connect : p[2] \notin BlockedAddrs
    /\ [][\A c \in callers :
             (UNCHANGED env /\ ~env.rebound /\ Fetching(c)
                 /\ fs[c].connect \subseteq fs[c].inspected)
             => fs'[c].connect \subseteq fs'[c].inspected]_vars

\* The guard passed cdn.example.com on its public addresses and the request
\* went to the metadata address.
C31_WitnessRebound ==
    \E c \in callers :
        /\ Fetching(c)
        /\ <<"cdn.example.com", "151.101.1.6">> \in fs[c].inspected
        /\ <<"cdn.example.com", "169.254.169.254">> \in fs[c].connect
        /\ <<"cdn.example.com", "169.254.169.254">> \notin fs[c].inspected

\* The fetch of caller d is in its persist step: it has opened the cache file
\* of its URL with truncation and has not written the body yet.
Persisting(d) == fs[d].op = "fetch" /\ fs[d].pc = "write"

\* C32 as stated: while a fetch of a URL by one caller is in its persist
\* step, forced or not, a lookup of that URL or a fetch of it that hits the
\* cache by another caller returns no path of a file that is empty or partly
\* written: the file of a returned path holds a body a fetch wrote whole.
C32_NoHalfWrittenFileReturned ==
    [][\A c, d \in callers :
          (/\ c # d
           /\ Persisting(d)
           /\ fs[c].pc # "done"
           /\ fs'[c].pc = "done"
           /\ fs'[c].op \in {"fetch", "get_local_path"}
           /\ fs'[c].nbody = 0
           /\ fs'[c].url = fs[d].url
           /\ fs'[c].result # NoPath)
          => /\ files'[fs'[c].result].exists
             /\ files'[fs'[c].result].data # <<>>
             /\ fs'[c].result \in intact']_vars

\* A lookup has returned the path of a file another caller's fetch had
\* truncated and not yet written: the file is empty.
C32_WitnessEmptyReturned ==
    \E c, d \in callers :
        /\ c # d
        /\ Persisting(d)
        /\ fs[c].op = "get_local_path" /\ fs[c].pc = "done"
        /\ fs[c].result = PathOf(fs[d].url)
        /\ files[fs[c].result].data = <<>>

\* A fetch has returned as a cache hit the path of a file that a forced
\* refresh of another caller had truncated: the body cached before is gone
\* and the new one not yet written.
C32_WitnessRefreshExposed ==
    \E c, d \in callers :
        /\ c # d
        /\ Persisting(d) /\ fs[d].force_refresh /\ fs[d].cached0
        /\ FetchDone(c) /\ fs[c].nbody = 0
        /\ fs[c].result = PathOf(fs[d].url)
        /\ files[fs[c].result].data = <<>>

\* The files clear_cache of caller c deleted, and those it found and left.
DeletedBy(c) == {p \in Paths : fs[c].files0[p].exists /\ ~files[p].exists}

LeftBy(c) == {p \in Paths : fs[c].files0[p].exists /\ files[p].exists}

\* The clear_cache of caller c ran with no call of another caller at the
\* same time and has returned, and the call of caller d that has ended began
\* after that.
After(c, d) ==
    /\ ClearDone(c) /\ fs[c].alone
    /\ d # c /\ fs[d].pc = "done" /\ c \in fs[d].prior

\* C33: once clear_cache has returned, a lookup of a URL whose file it
\* deleted returns nothing and leaves the URL out of the index; a lookup of a
\* URL whose file it could not delete returns the file's path and has the
\* URL in the index again, entered by the disk probe when the index did not
\* hold it; the statistics count the files it could not delete, zero when it
\* deleted all; neither raises an error.
C33_AfterClear ==
    \A c, d \in callers :
        After(c, d) =>
            /\ fs[d].op = "get_local_path" =>
                  LET u == fs[d].url
                      p == PathOf(u)
                  IN  /\ fs[d].err = NoErr
                      /\ p \in DeletedBy(c) =>
                             fs[d].result = NoPath /\ url_to_path[u] = NoPath
                      /\ p \in LeftBy(c) =>
                             fs[d].result = p /\ url_to_path[u] = p
                      /\ p \notin DeletedBy(c) \cup LeftBy(c) => fs[d].result = NoPath
            /\ fs[d].op = "get_cache_stats" =>
                  /\ fs[d].err = NoErr
                  /\ fs[d].stats.cached_files = Cardinality(LeftBy(c))
                  /\ fs[c].count = Cardinality({p \in Paths : fs[c].files0[p].exists})
                        => fs[d].stats.cached_files = 0

\* clear_cache found the file of a fetched URL and failed to delete it; a
\* lookup of the URL after it, on the emptied index, has returned the path
\* and entered it in the index.
C33_Witness ==
    \E c, d \in callers :
        /\ After(c, d)
        /\ fs[c].index0[U_OLD] = PathOf(U_OLD)
        /\ fs[c].count = 0
        /\ LeftBy(c) = {PathOf(U_OLD)}
        /\ LookupDone(d)
        /\ fs[d].url = U_OLD
        /\ fs[d].index0 = EmptyIndex
        /\ fs[d].result = PathOf(U_OLD)
        /\ url_to_path[U_OLD] = PathOf(U_OLD)

\* clear_cache deleted the file of a fetched URL and a lookup of the URL
\* after it has returned nothing.
C33_WitnessDeleted ==
    \E c, d \in callers :
        /\ After(c, d)
        /\ DeletedBy(c) = {PathOf(U_OLD)}
        /\ fs[c].index0[U_OLD] = PathOf(U_OLD)
        /\ LookupDone(d)
        /\ fs[d].url = U_OLD
        /\ fs[d].result = NoPath
        /\ url_to_path[U_OLD] = NoPath

\* clear_cache deleted the one file there was and the statistics taken after
\* it count no file.
C33_WitnessAllDeleted ==
    \E c, d \in callers :
        /\ After(c, d)
        /\ fs[c].count = 1
        /\ LeftBy(c) = {}
        /\ StatsDone(d)
        /\ fs[d].stats.cached_files = 0

\* The statistics were taken while another caller's clear_cache was between
\* its listing and its deletions, and the file they had listed was gone when
\* they came to it: FileNotFoundError.
C33_WitnessStatsRaced ==
    \E c, d \in callers :
        /\ ClearDone(c) /\ ~fs[c].alone /\ fs[c].count = 1
        /\ StatsDone(d)
        /\ fs[d].err = Err("FileNotFoundError", "stat")

\* A fetch registered its download between the deletions of another
\* caller's clear_cache and the emptying of the index: it has returned a
\* path, the file is gone and the index is empty.
C33_WitnessFetchRaced ==
    \E c, d \in callers :
        /\ ClearDone(c) /\ ~fs[c].alone /\ fs[c].count = 1
        /\ FetchDone(d) /\ fs[d].err = NoErr
        /\ fs[d].result = PathOf(U_OLD)
        /\ ~files[PathOf(U_OLD)].exists
        /\ url_to_path = EmptyIndex

\* C34: in every state the calls of fetch, get_local_path, clear_cache and
\* get_cache_stats lead to, an index entry of a URL is the path in the cache
\* directory named after that URL; no two URLs have the same entry and none
\* has the file of another URL.
C34_IndexEntryIsOwnCacheFile ==
    /\ \A u \in URLs :
          url_to_path[u] # NoPath =>
             /\ url_to_path[u].dir = "cache_dir"
             /\ SubSeq(url_to_path[u].file, 1, 16) = DigestOf(u)
             /\ url_to_path[u] = PathOf(u)
    /\ \A u, v \in URLs :
          (u # v /\ url_to_path[u] # NoPath) =>
             /\ url_to_path[u] # url_to_path[v]
             /\ SubSeq(url_to_path[u].file, 1, 16) # DigestOf(v)

\* The index holds two URLs: one entered by a lookup that found its file in
\* the directory, the other by a fetch that two redirects led to another
\* URL's server.
C34_Witness ==
    \E c \in callers :
        /\ FetchDone(c)
        /\ fs[c].url = U_OLD
        /\ fs[c].nredir = 2
        /\ fs[c].current_url = U_NEW
        /\ fs[c].index0[U_API] = PathOf(U_API)
        /\ fs[c].index0[U_OLD] = NoPath
        /\ url_to_path[U_OLD] = PathOf(U_OLD)
        /\ url_to_path[U_API] = PathOf(U_API)

\* The name of the file at path p ends in ".pdf".
NamedPdf(p) ==
    LET n == p.file
    IN  /\ Len(n) >= 4
        /\ <<n[Len(n) - 3], n[Len(n) - 2], n[Len(n) - 1], n[Len(n)]>> = <<".", "p", "d", "f">>

\* The URLs fetched with success since the cache was empty or cleared, as
\* the index of caller c's call found them, when the directory then held
\* their files and no other.
FetchedBefore(c) == {u \in URLs : fs[c].index0[u] # NoPath}

OnlyFetchedFiles(c) ==
    /\ \A u \in FetchedBefore(c) : fs[c].files0[fs[c].index0[u]].exists
    /\ \A p \in Paths :
          fs[c].files0[p].exists => \E u \in FetchedBefore(c) : fs[c].index0[u] = p

\* C35: every file in the cache directory has a name that ends in ".pdf";
\* when the directory holds the files of the n URLs fetched with success and
\* no other, get_cache_stats counts n files, and clear_cache, when no file
\* with such a name is left after it, has returned n and left the directory
\* empty.
C35_EveryDownloadScanned ==
    /\ \A p \in Paths : files[p].exists => NamedPdf(p)
    /\ \A c \in callers :
          (StatsDone(c) /\ OnlyFetchedFiles(c)) =>
              fs[c].stats.cached_files = Cardinality(FetchedBefore(c))
    /\ \A c \in callers :
          (ClearDone(c) /\ OnlyFetchedFiles(c)
                        /\ \A p \in Paths : NamedPdf(p) => ~files[p].exists) =>
              /\ fs[c].count = Cardinality(FetchedBefore(c))
              /\ \A p \in Paths : ~files[p].exists

\* The statistics count three files after the three URLs were fetched.
C35_Witness ==
    \E c \in callers :
        /\ StatsDone(c)
        /\ OnlyFetchedFiles(c)
        /\ FetchedBefore(c) = {U_OLD, U_API, U_ODD}
        /\ fs[c].stats.cached_files = 3

\* clear_cache has deleted the three files and returned 3.
C35_WitnessCleared ==
    \E c \in callers :
        /\ ClearDone(c)
        /\ OnlyFetchedFiles(c)
        /\ FetchedBefore(c) = {U_OLD, U_API, U_ODD}
        /\ fs[c].count = 3
        /\ \A p \in Paths : ~files[p].exists

\* Where a call is while it runs get_local_path.
LookupPcs == {"index", "entry", "exists", "probe", "backfill"}

\* In this step caller c only reads the cache: its lookup or its statistics
\* begin or take a step, or its fetch takes a step of its cache lookup, the
\* return of the path found included.
ReadCall(c) ==
    \/ /\ fs'[c].op \in {"get_local_path", "get_cache_stats"}
       /\ fs'[c] # fs[c]
    \/ /\ fs'[c].op = "fetch"
       /\ fs'[c] # fs[c]
       /\ \/ fs'[c].pc \in LookupPcs
          \/ fs[c].pc \in LookupPcs /\ fs'[c].pc = "done" /\ fs'[c].err = NoErr

\* C36: a lookup, a fetch that hits the cache and the statistics leave every
\* file of the cache directory and its mode as they are and send no request;
\* a lookup and a cache-hit fetch change nothing of the index but the entry of
\* the URL asked for, and that only to enter the URL's own file found in the
\* directory; a lookup that misses and the statistics change nothing.
C36_ReadPathsFrame ==
    [][\A c \in callers :
          ReadCall(c) =>
             /\ files' = files
             /\ perm' = perm
             /\ docs' = docs
             /\ fs'[c].requested = {} /\ fs'[c].iter = 0 /\ fs'[c].connect = {}
             /\ fs'[c].nbody = 0 /\ fs'[c].nread = 0
             /\ \A u \in URLs : u # fs'[c].url => url_to_path'[u] = url_to_path[u]
             /\ fs'[c].op = "get_cache_stats" => url_to_path' = url_to_path
             /\ fs'[c].result = NoPath => url_to_path' = url_to_path
             /\ url_to_path' # url_to_path =>
                   /\ fs'[c].url \in {U_OLD, U_API}
                   /\ url_to_path'[fs'[c].url] = PathOf(fs'[c].url)
                   /\ fs'[c].result = PathOf(fs'[c].url)
                   /\ files[PathOf(fs'[c].url)].exists]_vars

\* A fetch has hit the cache through the disk probe: it returned the file put
\* into the directory from outside and entered it in the index, which held
\* another URL's entry.
C36_Witness ==
    \E c \in callers :
        /\ FetchDone(c)
        /\ fs[c].url = U_API
        /\ fs[c].nbody = 0
        /\ fs[c].result = PathOf(U_API)
        /\ fs[c].index0[U_API] = NoPath
        /\ fs[c].index0[U_OLD] = PathOf(U_OLD)
        /\ url_to_path[U_API] = PathOf(U_API)
        /\ url_to_path[U_OLD] = PathOf(U_OLD)
        /\ files = fs[c].files0

\* The statistics were taken while the index named a file that is gone, and
\* the index is as it was.
C36_WitnessStats ==
    \E c \in callers :
        /\ StatsDone(c)
        /\ fs[c].index0[U_OLD] = PathOf(U_OLD)
        /\ ~files[PathOf(U_OLD)].exists
        /\ url_to_path = fs[c].index0
        /\ files = fs[c].files0

\* A lookup missed a URL whose index entry names a file that is gone, and
\* the index is as it was.
C36_WitnessMiss ==
    \E c \in callers :
        /\ LookupDone(c)
        /\ fs[c].url = U_OLD
        /\ fs[c].index0[U_OLD] = PathOf(U_OLD)
        /\ fs[c].result = NoPath
        /\ url_to_path = fs[c].index0

====
